---- MODULE Spec2Model ----
(***************************************************************************)
(* Coppit rules engine (src/app/engine.py, src/app/models.py) as a state   *)
(* machine.  The state is one GameState value; each action is one call of  *)
(* a public engine function on it.  The audit log (GameState.logs) is      *)
(* write-only in the engine and is not part of the model.  tasks holds the *)
(* coroutines of the session layer (src/app/main.py) that are in flight on *)
(* one room; it is empty where the engine is called directly.              *)
(***************************************************************************)
EXTENDS Integers, Sequences, FiniteSets, TLC

VARIABLES state, call, tasks

vars == <<state, call, tasks>>

(* Optional values: None for ids, colours and directions; NoDice for an   *)
(* absent dice value; the empty sequence for an absent Stack or winner.   *)
None == "None"

NoDice == 0

(* No coroutine of the session layer is in flight. *)
NoTasks == <<>>

(* roll_dice called without a seed. *)
NoSeed == -1

(***************************************************************************)
(* Bounds of the model.                                                    *)
(***************************************************************************)
MaxTurns == 3

NumPlayerIds == 2

HatsPerPlayer == 2

MaxJoinTurn == 0

(***************************************************************************)
(* Enums and configuration (models.py).                                    *)
(***************************************************************************)
PlayerColor == <<"RED", "GREEN", "BLUE", "YELLOW">>

Colors == {PlayerColor[i] : i \in 1..Len(PlayerColor)}

Direction == {"CW", "CCW", "NORTH", "EAST", "SOUTH", "WEST"}

RingSize == 48

DiceSides == 6

AllPlayerIds == <<"p1", "p2", "p3", "p4">>

PlayerIds == {AllPlayerIds[i] : i \in 1..NumPlayerIds}

(***************************************************************************)
(* Sequence helpers.                                                       *)
(***************************************************************************)
Range(s) == {s[i] : i \in DOMAIN s}

Last(s) == s[Len(s)]

RECURSIVE Flatten(_)
Flatten(ss) == IF ss = <<>> THEN <<>> ELSE Head(ss) \o Flatten(Tail(ss))

RemoveAt(s, i) == SubSeq(s, 1, i - 1) \o SubSeq(s, i + 1, Len(s))


(***************************************************************************)
(* The board (app/data/board_4p_coppit.json is not part of the sources;    *)
(* the graph below follows spec.md sections 3, 4.1 and 8: a ring of 48     *)
(* outer_N nodes, one reserve node box_<colour> per colour whose first     *)
(* neighbour is its entry node (box_red next to outer_0), four JUNCTION    *)
(* nodes on the ring each opening a CROSS arm that leads to the cross      *)
(* centre, and one SAFE_COLOR node per colour).                            *)
(***************************************************************************)
OuterIds ==
    <<"outer_0", "outer_1", "outer_2", "outer_3", "outer_4", "outer_5",
       "outer_6", "outer_7", "outer_8", "outer_9", "outer_10", "outer_11",
       "outer_12", "outer_13", "outer_14", "outer_15", "outer_16",
       "outer_17", "outer_18", "outer_19", "outer_20", "outer_21",
       "outer_22", "outer_23", "outer_24", "outer_25", "outer_26",
       "outer_27", "outer_28", "outer_29", "outer_30", "outer_31",
       "outer_32", "outer_33", "outer_34", "outer_35", "outer_36",
       "outer_37", "outer_38", "outer_39", "outer_40", "outer_41",
       "outer_42", "outer_43", "outer_44", "outer_45", "outer_46", "outer_47">>

OuterSet == Range(OuterIds)

OuterId(n) == OuterIds[n + 1]

OuterNums == [id \in OuterSet |-> CHOOSE n \in 0..(RingSize - 1) : OuterIds[n + 1] = id]

(* int(node_id.split("_")[1]) of an outer_N node. *)
OuterNum(id) == OuterNums[id]

BoxNodeId(color) ==
    CASE color = "RED" -> "box_red"
      [] color = "GREEN" -> "box_green"
      [] color = "BLUE" -> "box_blue"
      [] color = "YELLOW" -> "box_yellow"
      [] OTHER -> "box_none"

BoxSet == {BoxNodeId(c) : c \in Colors}

CrossSet == {"cross_e_1", "cross_e_2", "cross_s_1", "cross_s_2",
             "cross_w_1", "cross_w_2", "cross_n_1", "cross_n_2",
             "cross_center"}

NodeIds == OuterSet \cup BoxSet \cup CrossSet

EntryNum(color) ==
    CASE color = "RED" -> 0
      [] color = "GREEN" -> 12
      [] color = "BLUE" -> 24
      [] color = "YELLOW" -> 36

SafeNum(color) == EntryNum(color) + 3

JunctionArm(n) ==
    CASE n = 6 -> "cross_e_1"
      [] n = 18 -> "cross_s_1"
      [] n = 30 -> "cross_w_1"
      [] n = 42 -> "cross_n_1"
      [] OTHER -> None

OuterNode(n) ==
    LET ring == <<OuterId((n + 1) % RingSize), OuterId((n - 1) % RingSize)>>
        box  == IF \E c \in Colors : EntryNum(c) = n
                THEN <<BoxNodeId(CHOOSE c \in Colors : EntryNum(c) = n)>>
                ELSE <<>>
        arm  == IF JunctionArm(n) # None THEN <<JunctionArm(n)>> ELSE <<>>
    IN  [neighbors |-> ring \o box \o arm,
         tags      |-> IF JunctionArm(n) # None THEN {"JUNCTION"}
                       ELSE IF \E c \in Colors : SafeNum(c) = n
                            THEN {"SAFE_COLOR"}
                            ELSE {"NORMAL"},
         color     |-> IF \E c \in Colors : SafeNum(c) = n
                       THEN CHOOSE c \in Colors : SafeNum(c) = n
                       ELSE None]

CrossNode(id) ==
    LET nb == CASE id = "cross_e_1" -> <<"outer_6", "cross_e_2">>
                [] id = "cross_e_2" -> <<"cross_e_1", "cross_center">>
                [] id = "cross_s_1" -> <<"outer_18", "cross_s_2">>
                [] id = "cross_s_2" -> <<"cross_s_1", "cross_center">>
                [] id = "cross_w_1" -> <<"outer_30", "cross_w_2">>
                [] id = "cross_w_2" -> <<"cross_w_1", "cross_center">>
                [] id = "cross_n_1" -> <<"outer_42", "cross_n_2">>
                [] id = "cross_n_2" -> <<"cross_n_1", "cross_center">>
                [] OTHER -> <<"cross_n_2", "cross_e_2", "cross_s_2", "cross_w_2">>
    IN  [neighbors |-> nb, tags |-> {"CROSS"}, color |-> None]

BoxNode(color) ==
    [neighbors |-> <<OuterId(EntryNum(color))>>, tags |-> {"BOX"}, color |-> color]

Board ==
    [id \in NodeIds |->
        IF id \in OuterSet THEN OuterNode(OuterNum(id))
        ELSE IF id \in CrossSet THEN CrossNode(id)
        ELSE BoxNode(CHOOSE c \in Colors : BoxNodeId(c) = id)]

(* Board.get_node: a node or None. *)
HasNode(id) == id \in DOMAIN Board

Neighbors(id) == IF HasNode(id) THEN Board[id].neighbors ELSE <<>>

is_box(id) == HasNode(id) /\ "BOX" \in Board[id].tags

is_safe_color(id) == HasNode(id) /\ "SAFE_COLOR" \in Board[id].tags

is_junction(id) == HasNode(id) /\ "JUNCTION" \in Board[id].tags

(* str.startswith("box_"), str.startswith("outer_"), "cross_" prefix. *)
StartsWithBox(id) == id \in BoxSet \/ id = "box_none"

StartsWithOuter(id) == id \in OuterSet

StartsWithCross(id) == id \in CrossSet

(***************************************************************************)
(* Entity model (models.py).                                               *)
(***************************************************************************)
(* A Hat is identified by its colour and index: id = "<colour>_<n>". *)
create_hat(color, index) == [color |-> color, n |-> index]

(* A reserve that is one piece short. *)
create_initial_hats_short(color, count) ==
    [i \in 1..(count - 1) |-> create_hat(color, i)]

create_initial_hats(color, count) == [i \in 1..count |-> create_hat(color, i)]

Stack(node_id, pieces) == [node_id |-> node_id, pieces |-> pieces]

controller(stack) ==
    IF stack.pieces # <<>> THEN Last(stack.pieces).color ELSE None

Player(id, color, is_bot) ==
    [id |-> id, color |-> color, is_bot |-> is_bot,
     box_hats |-> <<>>, banked_hats |-> <<>>]

score(player) ==
    Len(SelectSeq(player.box_hats, LAMBDA h : h.color = player.color))

points(player) ==
    Len(SelectSeq(player.banked_hats, LAMBDA h : h.color # player.color))

GameConfig ==
    [max_players |-> 4, hats_per_player |-> 6, require_6_to_deploy |-> FALSE,
     safe_by_color |-> TRUE, extra_roll_on_6 |-> TRUE, max_turns |-> 0]

current_player_id(s) ==
    IF s.turn_order = <<>> THEN None
    ELSE s.turn_order[s.current_turn_index + 1]

HasCurrentPlayer(s) ==
    current_player_id(s) # None /\ current_player_id(s) \in DOMAIN s.players

current_player(s) == s.players[current_player_id(s)]

get_all_hats_on_board(s) ==
    Flatten([i \in DOMAIN s.stacks |-> s.stacks[i].pieces])

get_colors_on_board(s) ==
    {h.color : h \in Range(get_all_hats_on_board(s))}

(***************************************************************************)
(* Initialization (engine.py).                                             *)
(***************************************************************************)
init_game(cfg) ==
    [config |-> cfg, players |-> <<>>, turn_order |-> <<>>,
     current_turn_index |-> 0, phase |-> "WAITING", dice_value |-> NoDice,
     selected_stack |-> <<>>, selected_direction |-> None, stacks |-> <<>>,
     winner |-> <<>>, turn_count |-> 0]

(* rnd is the value drawn by random.randint(0, len(turn_order) - 1). *)
(* A join that hands out the last free colour of the palette. *)
add_player_last_colour(s, player_id, is_bot, rnd) ==
    LET used_colors == {s.players[p].color : p \in DOMAIN s.players}
        available_colors ==
            SelectSeq(PlayerColor, LAMBDA c : c \notin used_colors)
    IN  IF Cardinality(DOMAIN s.players) >= s.config.max_players THEN s
        ELSE IF available_colors = <<>> THEN s
        ELSE
          LET color == available_colors[Len(available_colors)]
              hats == create_initial_hats(color, s.config.hats_per_player)
              player == [Player(player_id, color, is_bot) EXCEPT !.box_hats = hats]
              players1 == [p \in DOMAIN s.players \cup {player_id} |->
                               IF p = player_id THEN player ELSE s.players[p]]
              turn_order1 == Append(s.turn_order, player_id)
              is_first_player == Len(s.stacks) = 0
              box_node_id == BoxNodeId(color)
              stacks1 == IF HasNode(box_node_id)
                         THEN Append(s.stacks, Stack(box_node_id, player.box_hats))
                         ELSE s.stacks
              s1 == [s EXCEPT !.players = players1, !.turn_order = turn_order1,
                              !.stacks = stacks1]
          IN  IF Cardinality(DOMAIN players1) = s.config.max_players
                 /\ s.phase = "WAITING"
              THEN [s1 EXCEPT !.current_turn_index = rnd,
                              !.phase = "ROLL"]
              ELSE IF is_first_player THEN [s1 EXCEPT !.phase = "ROLL"]
              ELSE s1

add_player(s, player_id, is_bot, rnd) ==
    LET used_colors == {s.players[p].color : p \in DOMAIN s.players}
        available_colors ==
            SelectSeq(PlayerColor, LAMBDA c : c \notin used_colors)
    IN  IF Cardinality(DOMAIN s.players) >= s.config.max_players THEN s
        ELSE IF available_colors = <<>> THEN s
        ELSE
          LET color == available_colors[1]
              hats == create_initial_hats(color, s.config.hats_per_player)
              player == [Player(player_id, color, is_bot) EXCEPT !.box_hats = hats]
              players1 == [p \in DOMAIN s.players \cup {player_id} |->
                               IF p = player_id THEN player ELSE s.players[p]]
              turn_order1 == Append(s.turn_order, player_id)
              is_first_player == Len(s.stacks) = 0
              box_node_id == BoxNodeId(color)
              stacks1 == IF HasNode(box_node_id)
                         THEN Append(s.stacks, Stack(box_node_id, player.box_hats))
                         ELSE s.stacks
              s1 == [s EXCEPT !.players = players1, !.turn_order = turn_order1,
                              !.stacks = stacks1]
          IN  IF Cardinality(DOMAIN players1) = s.config.max_players
                 /\ s.phase = "WAITING"
              THEN [s1 EXCEPT !.current_turn_index = rnd,
                              !.phase = "ROLL"]
              ELSE IF is_first_player THEN [s1 EXCEPT !.phase = "ROLL"]
              ELSE s1

(***************************************************************************)
(* Dice and turn flow.                                                     *)
(***************************************************************************)
(* value is the value drawn by random.randint(1, 6). *)
roll_dice(s, value) == [s EXCEPT !.dice_value = value]

(* advance_turn divides by len(turn_order): ZeroDivisionError without players. *)
advance_turn_raises(s) == Len(s.turn_order) = 0

(* A turn change that lets a 6 roll again when the configuration says so. *)
advance_turn_extra_roll(s) ==
    [s EXCEPT !.current_turn_index =
                  IF s.config.extra_roll_on_6 /\ s.dice_value = 6
                  THEN s.current_turn_index
                  ELSE (s.current_turn_index + 1) % Len(s.turn_order),
              !.turn_count = s.turn_count + 1,
              !.dice_value = NoDice,
              !.selected_stack = <<>>,
              !.selected_direction = None,
              !.phase = "ROLL"]

advance_turn(s) ==
    [s EXCEPT !.current_turn_index =
                  (s.current_turn_index + 1) % Len(s.turn_order),
              !.turn_count = s.turn_count + 1,
              !.dice_value = NoDice,
              !.selected_stack = <<>>,
              !.selected_direction = None,
              !.phase = "ROLL"]

(***************************************************************************)
(* Path explorer.                                                          *)
(***************************************************************************)
RECURSIVE simple_path_loop(_, _, _)
simple_path_loop(path, current, remaining) ==
    IF remaining = 0 THEN path
    ELSE IF ~HasNode(current) \/ Neighbors(current) = <<>> THEN <<>>
    ELSE IF is_junction(current) THEN <<>>
    ELSE LET next_node == Neighbors(current)[1]
         IN  simple_path_loop(Append(path, next_node), next_node, remaining - 1)

get_simple_path(start_node_id, distance) ==
    simple_path_loop(<<start_node_id>>, start_node_id, distance)

get_legal_directions(stack) ==
    IF ~HasNode(stack.node_id) THEN <<>>
    ELSE IF is_box(stack.node_id) THEN <<"CW", "CCW">>
    ELSE IF StartsWithOuter(stack.node_id) THEN <<"CW", "CCW">>
    ELSE IF StartsWithCross(stack.node_id)
         THEN <<"NORTH", "EAST", "SOUTH", "WEST">>
    ELSE IF is_junction(stack.node_id) THEN <<"CW", "CCW">>
    ELSE <<>>

(* A ring step that is clockwise whatever the direction. *)
RingStepClockwise(num, direction) == (num + 1) % RingSize

(* The ring neighbour number the code expects for a direction: CW is +1,   *)
(* every other direction takes the else branch, -1.                        *)
RingStep(num, direction) ==
    IF direction = "CW" THEN (num + 1) % RingSize ELSE (num - 1) % RingSize

RECURSIVE explore_paths(_, _, _, _)
explore_paths(current, remaining, path, direction) ==
    IF remaining = 0 THEN <<path>>
    ELSE IF ~HasNode(current) THEN <<>>
    ELSE IF is_junction(current) THEN
        Flatten([k \in DOMAIN Neighbors(current) |->
            LET neighbor_id == Neighbors(current)[k]
            IN  IF ~HasNode(neighbor_id) THEN <<>>
                ELSE IF StartsWithOuter(neighbor_id) /\ direction # None THEN
                    IF OuterNum(neighbor_id) = RingStep(OuterNum(current), direction)
                    THEN explore_paths(neighbor_id, remaining - 1,
                                       Append(path, neighbor_id), direction)
                    ELSE <<>>
                ELSE IF StartsWithCross(neighbor_id) THEN
                    explore_paths(neighbor_id, remaining - 1,
                                  Append(path, neighbor_id), direction)
                ELSE <<>>])
    ELSE IF StartsWithOuter(current) /\ direction # None THEN
        LET next_id == OuterId(RingStep(OuterNum(current), direction))
        IN  IF HasNode(next_id)
            THEN explore_paths(next_id, remaining - 1, Append(path, next_id),
                               direction)
            ELSE <<>>
    ELSE IF StartsWithCross(current) THEN
        Flatten([k \in DOMAIN Neighbors(current) |->
            LET neighbor_id == Neighbors(current)[k]
            IN  IF neighbor_id \in Range(path) THEN <<>>
                ELSE IF HasNode(neighbor_id)
                     THEN explore_paths(neighbor_id, remaining - 1,
                                        Append(path, neighbor_id), direction)
                     ELSE <<>>])
    ELSE <<>>

all_possible_paths(start, distance, direction) ==
    IF distance = 0 THEN <<<<start>>>>
    ELSE explore_paths(start, distance, <<start>>, direction)

(* The enumeration depends on the board alone: it is tabulated once for    *)
(* the nodes, step counts and directions of the game.                      *)
PathTable ==
    [start \in NodeIds |-> [distance \in 0..DiceSides |->
        [direction \in Direction \cup {None} |->
            all_possible_paths(start, distance, direction)]]]

get_all_possible_paths(start, distance, direction) ==
    IF start \in NodeIds /\ distance \in 0..DiceSides
    THEN PathTable[start][distance][direction]
    ELSE all_possible_paths(start, distance, direction)

(* The neighbours not yet visited, each once, in list order. *)
RECURSIVE Unvisited(_, _)
Unvisited(nbs, visited) ==
    IF nbs = <<>> THEN <<>>
    ELSE IF Head(nbs) \in visited THEN Unvisited(Tail(nbs), visited)
    ELSE <<Head(nbs)>> \o Unvisited(Tail(nbs), visited \cup {Head(nbs)})

(* calculate_distance_to_box returns None when the box is unreachable. *)
NoDistance == -1

RECURSIVE distance_bfs(_, _, _)
distance_bfs(queue, visited, box_node_id) ==
    IF queue = <<>> THEN NoDistance
    ELSE LET current_id == Head(queue)[1]
             distance == Head(queue)[2]
         IN  IF current_id = box_node_id THEN distance
             ELSE IF ~HasNode(current_id)
                  THEN distance_bfs(Tail(queue), visited, box_node_id)
             ELSE LET fresh == Unvisited(Neighbors(current_id), visited)
                  IN  distance_bfs(
                          Tail(queue) \o [k \in DOMAIN fresh |->
                                              <<fresh[k], distance + 1>>],
                          visited \cup Range(fresh), box_node_id)

distance_to_box(start_node_id, box_node_id) ==
    distance_bfs(<<<<start_node_id, 0>>>>, {start_node_id}, box_node_id)

(* The distance counted in nodes on the way instead of steps. *)
distance_counting_nodes(start_node_id, box_node_id) ==
    distance_bfs(<<<<start_node_id, 1>>>>, {start_node_id}, box_node_id)

DistanceTable ==
    [start \in NodeIds |-> [box \in BoxSet |-> distance_to_box(start, box)]]

calculate_distance_to_box(start_node_id, box_node_id) ==
    IF start_node_id \in NodeIds /\ box_node_id \in BoxSet
    THEN DistanceTable[start_node_id][box_node_id]
    ELSE distance_to_box(start_node_id, box_node_id)

(* calculate_path_to_box: breadth-first over (node, distance) pairs; the   *)
(* empty sequence stands for None.                                         *)
RECURSIVE path_bfs(_, _, _, _)
path_bfs(queue, visited, box_node_id, target_distance) ==
    IF queue = <<>> THEN <<>>
    ELSE LET path == Head(queue)
             current_id == Last(path)
             current_distance == Len(path) - 1
         IN  IF current_id = box_node_id /\ current_distance = target_distance
             THEN path
             ELSE IF current_distance < target_distance /\ HasNode(current_id)
             THEN LET keys == {k[1] : k \in {v \in visited :
                                               v[2] = current_distance + 1}}
                      fresh == Unvisited(Neighbors(current_id), keys)
                  IN  path_bfs(
                          Tail(queue) \o [k \in DOMAIN fresh |->
                                              Append(path, fresh[k])],
                          visited \cup {<<n, current_distance + 1>> :
                                           n \in Range(fresh)},
                          box_node_id, target_distance)
             ELSE path_bfs(Tail(queue), visited, box_node_id, target_distance)

path_to_box(start_node_id, box_node_id, target_distance) ==
    path_bfs(<<<<start_node_id>>>>, {<<start_node_id, 0>>}, box_node_id,
             target_distance)

BoxPathTable ==
    [start \in NodeIds |-> [box \in BoxSet |-> [distance \in 1..DiceSides |->
        path_to_box(start, box, distance)]]]

calculate_path_to_box(start_node_id, box_node_id, target_distance) ==
    IF start_node_id \in NodeIds /\ box_node_id \in BoxSet
       /\ target_distance \in 1..DiceSides
    THEN BoxPathTable[start_node_id][box_node_id][target_distance]
    ELSE path_to_box(start_node_id, box_node_id, target_distance)

(* The first neighbour not yet on the path, or None. *)
select_next_node(current, visited) ==
    LET free == SelectSeq(Neighbors(current), LAMBDA n : n \notin Range(visited))
    IN  IF ~HasNode(current) \/ free = <<>> THEN None ELSE free[1]

RECURSIVE ring_path_loop(_, _, _, _)
ring_path_loop(path, current_num, remaining, direction) ==
    IF remaining = 0 THEN path
    ELSE LET next_num == RingStep(current_num, direction)
         IN  ring_path_loop(Append(path, OuterId(next_num)), next_num,
                            remaining - 1, direction)

RECURSIVE other_path_loop(_, _, _)
other_path_loop(path, current, remaining) ==
    IF remaining = 0 \/ ~HasNode(current) THEN path
    ELSE LET next_node == select_next_node(current, path)
         IN  IF next_node = None THEN path
             ELSE other_path_loop(Append(path, next_node), next_node,
                                  remaining - 1)

calculate_path(start, distance, direction) ==
    IF distance = 0 THEN <<start>>
    ELSE IF direction = None THEN get_simple_path(start, distance)
    ELSE IF StartsWithOuter(start)
         THEN ring_path_loop(<<start>>, OuterNum(start), distance, direction)
    ELSE other_path_loop(<<start>>, start, distance)

find_deployment_node(color) ==
    IF HasNode(BoxNodeId(color)) /\ Neighbors(BoxNodeId(color)) # <<>>
    THEN Neighbors(BoxNodeId(color))[1]
    ELSE None

(***************************************************************************)
(* Legal-move queries.                                                     *)
(***************************************************************************)
can_move_stack(stack, distance) ==
    IF ~HasNode(stack.node_id) THEN FALSE
    ELSE IF StartsWithOuter(stack.node_id) THEN TRUE
    ELSE IF is_junction(stack.node_id) THEN TRUE
    ELSE IF StartsWithCross(stack.node_id) THEN TRUE
    ELSE Len(get_simple_path(stack.node_id, distance)) > 0

(* Legal stacks with the reserve open on every roll. *)
get_legal_stacks_any_dice(s, player_id) ==
    IF player_id \notin DOMAIN s.players \/ s.dice_value = NoDice THEN <<>>
    ELSE
      LET player == s.players[player_id]
          can_deploy == player.box_hats # <<>>
          box_node_id == BoxNodeId(player.color)
          from_box == IF can_deploy
                      THEN SelectSeq(s.stacks, LAMBDA st :
                               st.node_id = box_node_id /\ Len(st.pieces) > 0)
                      ELSE <<>>
          on_board == SelectSeq(s.stacks, LAMBDA st :
                          /\ ~StartsWithBox(st.node_id)
                          /\ controller(st) = player.color
                          /\ can_move_stack(st, s.dice_value))
      IN  from_box \o on_board

(* Legal stacks that include the board stacks of every colour. *)
get_legal_stacks_any_owner(s, player_id) ==
    IF player_id \notin DOMAIN s.players \/ s.dice_value = NoDice THEN <<>>
    ELSE
      LET player == s.players[player_id]
          can_deploy == /\ player.box_hats # <<>>
                        /\ (~s.config.require_6_to_deploy \/ s.dice_value = 6)
          box_node_id == BoxNodeId(player.color)
          from_box == IF can_deploy
                      THEN SelectSeq(s.stacks, LAMBDA st :
                               st.node_id = box_node_id /\ Len(st.pieces) > 0)
                      ELSE <<>>
          on_board == SelectSeq(s.stacks, LAMBDA st :
                          /\ ~StartsWithBox(st.node_id)
                          /\ can_move_stack(st, s.dice_value))
      IN  from_box \o on_board

get_legal_stacks(s, player_id) ==
    IF player_id \notin DOMAIN s.players \/ s.dice_value = NoDice THEN <<>>
    ELSE
      LET player == s.players[player_id]
          can_deploy == /\ player.box_hats # <<>>
                        /\ (~s.config.require_6_to_deploy \/ s.dice_value = 6)
          box_node_id == BoxNodeId(player.color)
          from_box == IF can_deploy
                      THEN SelectSeq(s.stacks, LAMBDA st :
                               st.node_id = box_node_id /\ Len(st.pieces) > 0)
                      ELSE <<>>
          on_board == SelectSeq(s.stacks, LAMBDA st :
                          /\ ~StartsWithBox(st.node_id)
                          /\ controller(st) = player.color
                          /\ can_move_stack(st, s.dice_value))
      IN  from_box \o on_board

PathEnds(paths, min_len) ==
    {Last(paths[k]) : k \in {j \in DOMAIN paths : Len(paths[j]) >= min_len}}

get_legal_destination_nodes(s, stack) ==
    IF s.dice_value = NoDice THEN {}
    ELSE IF StartsWithBox(stack.node_id) THEN
        IF ~HasCurrentPlayer(s) THEN {}
        ELSE LET deploy_node == find_deployment_node(current_player(s).color)
             IN  IF deploy_node = None THEN {}
                 ELSE IF s.dice_value = 1 THEN {deploy_node}
                 ELSE UNION {PathEnds(get_all_possible_paths(
                                deploy_node, s.dice_value - 1, d), 1) :
                             d \in {"CW", "CCW"}}
    ELSE
        LET directions == get_legal_directions(stack)
            box_node_id == BoxNodeId(controller(stack))
            to_box == IF controller(stack) # None
                         /\ calculate_distance_to_box(stack.node_id, box_node_id)
                                = s.dice_value
                      THEN {box_node_id} ELSE {}
            simple == get_simple_path(stack.node_id, s.dice_value)
            moves == IF directions = <<>>
                     THEN IF Len(simple) > 1 THEN {Last(simple)} ELSE {}
                     ELSE UNION {PathEnds(get_all_possible_paths(
                                    stack.node_id, s.dice_value, directions[k]), 2) :
                                 k \in DOMAIN directions}
        IN  to_box \cup moves

(***************************************************************************)
(* Move resolver.                                                          *)
(***************************************************************************)
(* Index of the first element of seq satisfying Test, 0 when there is none. *)
FirstIndex(seq, Test(_)) ==
    LET hits == {k \in DOMAIN seq : Test(seq[k])}
    IN  IF hits = {} THEN 0 ELSE CHOOSE k \in hits : \A j \in hits : k <= j

(* A deployment that walks the whole roll from the entry node. *)
deploy_from_box_step(s, stack, direction) ==
    IF ~HasCurrentPlayer(s) THEN s
    ELSE IF current_player(s).box_hats = <<>> \/ s.dice_value = NoDice THEN s
    ELSE
      LET player == current_player(s)
          hat == Head(player.box_hats)
          box_hats1 == Tail(player.box_hats)
          players1 == [s.players EXCEPT ![player.id].box_hats = box_hats1]
          box_node_id == BoxNodeId(player.color)
          i == FirstIndex(s.stacks, LAMBDA st : st.node_id = box_node_id)
          stacks1 == IF i = 0 THEN s.stacks
                     ELSE [s.stacks EXCEPT ![i] = Stack(box_node_id, box_hats1)]
          entry_node_id == find_deployment_node(player.color)
          path == calculate_path(entry_node_id, s.dice_value, direction)
          final_node_id == IF path # <<>> THEN Last(path)
                           ELSE entry_node_id
      IN  IF entry_node_id = None
          THEN [s EXCEPT !.players = players1, !.stacks = stacks1]
          ELSE [s EXCEPT !.players = players1,
                         !.stacks = Append(stacks1, Stack(final_node_id, <<hat>>))]

deploy_from_box(s, stack, direction) ==
    IF ~HasCurrentPlayer(s) THEN s
    ELSE IF current_player(s).box_hats = <<>> \/ s.dice_value = NoDice THEN s
    ELSE
      LET player == current_player(s)
          hat == Head(player.box_hats)
          box_hats1 == Tail(player.box_hats)
          players1 == [s.players EXCEPT ![player.id].box_hats = box_hats1]
          box_node_id == BoxNodeId(player.color)
          i == FirstIndex(s.stacks, LAMBDA st : st.node_id = box_node_id)
          stacks1 == IF i = 0 THEN s.stacks
                     ELSE [s.stacks EXCEPT ![i] = Stack(box_node_id, box_hats1)]
          entry_node_id == find_deployment_node(player.color)
          path == calculate_path(entry_node_id, s.dice_value - 1, direction)
          final_node_id == IF s.dice_value = 1 THEN entry_node_id
                           ELSE IF path # <<>> THEN Last(path)
                           ELSE entry_node_id
      IN  IF entry_node_id = None
          THEN [s EXCEPT !.players = players1, !.stacks = stacks1]
          ELSE [s EXCEPT !.players = players1,
                         !.stacks = Append(stacks1, Stack(final_node_id, <<hat>>))]

(* Index in s.stacks of the stack that is relocated, 0 when none matches. *)
move_stack_along_path(s, stack, path) ==
    FirstIndex(s.stacks, LAMBDA st :
        /\ st.node_id = stack.node_id
        /\ controller(st) = controller(stack)
        /\ st.pieces = stack.pieces)

is_safe(s, stack, node_id) ==
    IF ~HasNode(node_id) THEN FALSE
    ELSE IF s.config.safe_by_color /\ is_safe_color(node_id)
         THEN Board[node_id].color = controller(stack)
    ELSE is_box(node_id)

(* The merge with the moving stack below the stack already on the node. *)
combined_pieces_reversed(other_pieces, moving_pieces) ==
    moving_pieces \o other_pieces

(* The pieces after a merge: the stack already on the node below the      *)
(* moving stack.                                                           *)
combined_pieces(other_pieces, moving_pieces) == other_pieces \o moving_pieces

(* The merge loop of resolve_captures keeps the index of the moving stack  *)
(* taken before the loop while list.remove shifts the list.  objs maps an  *)
(* object (its index before the loop) to its current fields, list is       *)
(* state.stacks as a list of objects, others the objects still to absorb.  *)
(* An index past the end of the list raises IndexError, a remove that      *)
(* finds no equal element ValueError.                                      *)
RECURSIVE merge_loop(_, _, _, _)
merge_loop(objs, list, moving_stack_idx, others) ==
    IF others = <<>> THEN [objs |-> objs, list |-> list, raised |-> FALSE]
    ELSE IF moving_stack_idx > Len(list)
         THEN [objs |-> objs, list |-> list, raised |-> TRUE]
    ELSE
      LET other == Head(others)
          target == list[moving_stack_idx]
          objs1 == [objs EXCEPT ![target].pieces =
                        combined_pieces(objs[other].pieces, objs[target].pieces)]
          k == FirstIndex(list, LAMBDA o : objs1[o] = objs1[other])
      IN  IF k = 0 THEN [objs |-> objs1, list |-> list, raised |-> TRUE]
          ELSE merge_loop(objs1, RemoveAt(list, k), moving_stack_idx,
                          Tail(others))

(* resolve_captures on the stack at index m of stacks: the new list, the   *)
(* moving stack object afterwards, and whether an exception was raised.    *)
resolve_captures(stacks, m) ==
    LET dest_node_id == stacks[m].node_id
        ids == [k \in DOMAIN stacks |-> k]
        stacks_at_dest ==
            SelectSeq(ids, LAMBDA k : stacks[k].node_id = dest_node_id /\ k # m)
        safe == is_safe_color(dest_node_id)
        unprotected ==
            SelectSeq(stacks_at_dest, LAMBDA k :
                controller(stacks[k]) # Board[dest_node_id].color)
        same == [stacks |-> stacks, moved |-> stacks[m], raised |-> FALSE]
    IN  IF stacks_at_dest = <<>> THEN same
        ELSE IF safe /\ controller(stacks[m]) = Board[dest_node_id].color
             THEN same
        ELSE IF safe /\ unprotected = <<>> THEN same
        ELSE LET r == merge_loop(stacks, ids, m,
                                 IF safe THEN unprotected ELSE stacks_at_dest)
             IN  [stacks |-> [k \in DOMAIN r.list |-> r.objs[r.list[k]]],
                  moved  |-> r.objs[m],
                  raised |-> r.raised]

RECURSIVE bank_loop(_, _)
bank_loop(player, pieces) ==
    IF pieces = <<>> THEN player
    ELSE LET hat == Head(pieces)
             p1 == [player EXCEPT !.box_hats = Append(player.box_hats, hat)]
             p2 == IF hat.color # player.color
                   THEN [p1 EXCEPT !.banked_hats = Append(p1.banked_hats, hat)]
                   ELSE p1
         IN  bank_loop(p2, Tail(pieces))

resolve_box_return(s, stack) ==
    IF ~is_box(stack.node_id) THEN s
    ELSE IF ~HasCurrentPlayer(s) THEN s
    ELSE IF Board[stack.node_id].color # current_player(s).color THEN s
    ELSE [s EXCEPT !.players[current_player_id(s)] =
                       bank_loop(current_player(s), stack.pieces),
                   !.stacks = SelectSeq(s.stacks, LAMBDA st : st # stack)]

(***************************************************************************)
(* Game over.                                                              *)
(***************************************************************************)
(* max() of an empty sequence raises ValueError. *)
determine_winner_raises(s) == DOMAIN s.players = {}

(* The first player with the highest score alone. *)
determine_winner_first(s) ==
    LET best == CHOOSE m \in {score(s.players[p]) : p \in DOMAIN s.players} :
                    \A p \in DOMAIN s.players : score(s.players[p]) <= m
        winners == SelectSeq(s.turn_order, LAMBDA p : score(s.players[p]) = best)
    IN  [s EXCEPT !.winner = <<winners[1]>>, !.phase = "GAME_OVER"]

determine_winner(s) ==
    LET max_score == CHOOSE m \in {score(s.players[p]) : p \in DOMAIN s.players} :
                         \A p \in DOMAIN s.players : score(s.players[p]) <= m
        winners == SelectSeq(s.turn_order,
                             LAMBDA p : score(s.players[p]) = max_score)
    IN  [s EXCEPT !.winner = winners, !.phase = "GAME_OVER"]

(* Whether check_game_over calls determine_winner. *)
win_check_fires(s) ==
    \/ Cardinality(get_colors_on_board(s)) <= 1
    \/ s.config.max_turns # 0 /\ s.turn_count >= s.config.max_turns

check_game_over(s) == IF win_check_fires(s) THEN determine_winner(s) ELSE s

check_game_over_raises(s) == win_check_fires(s) /\ determine_winner_raises(s)

(***************************************************************************)
(* apply_move works on a deep copy: when it raises, the caller's state is  *)
(* untouched.  The result records the returned state, whether an exception *)
(* propagated, whether the win check fired and the node the stack was      *)
(* relocated to (None when nothing was relocated).                         *)
(***************************************************************************)
MoveResult(s, raised, fired, dest) ==
    [state |-> s, raised |-> raised, fired |-> fired, dest |-> dest]

(* The first explored path that ends on the target, <<>> when none. *)
path_to_target(all_paths, target_node_id) ==
    LET hits == SelectSeq(all_paths,
                          LAMBDA p : p # <<>> /\ Last(p) = target_node_id)
    IN  IF hits = <<>> THEN <<>> ELSE hits[1]

(* The path apply_move looks up for a target, <<>> when it finds none. *)
target_path(s, stack, direction, target_node_id) ==
    IF target_node_id = None THEN <<>>
    ELSE IF StartsWithBox(target_node_id)
    THEN calculate_path_to_box(stack.node_id, target_node_id, s.dice_value)
    ELSE IF direction # None
    THEN path_to_target(
             get_all_possible_paths(stack.node_id, s.dice_value, direction),
             target_node_id)
    ELSE <<>>

(* Without a path to the target apply_move falls back to the plain path. *)
path_or(path, fallback) == IF path # <<>> THEN path ELSE fallback

move_path(s, stack, direction, target_node_id) ==
    path_or(target_path(s, stack, direction, target_node_id),
            calculate_path(stack.node_id, s.dice_value, direction))

apply_move_finish(s, dest, s2) ==
    IF check_game_over_raises(s2) \/ advance_turn_raises(s2)
    THEN MoveResult(s, TRUE, win_check_fires(s2), dest)
    ELSE MoveResult(advance_turn(check_game_over(s2)), FALSE,
                    win_check_fires(s2), dest)

apply_move_resolve(s, dest, rc) ==
    IF rc.raised THEN MoveResult(s, TRUE, FALSE, dest)
    ELSE apply_move_finish(s, dest,
             resolve_box_return([s EXCEPT !.stacks = rc.stacks], rc.moved))

apply_move_relocate(s, dest, m) ==
    IF m = 0 THEN MoveResult(s, FALSE, FALSE, None)
    ELSE apply_move_resolve(s, dest,
             resolve_captures([s.stacks EXCEPT ![m].node_id = dest], m))

apply_move_along(s, stack, path) ==
    IF Len(path) < 2 THEN MoveResult(s, FALSE, FALSE, None)
    ELSE apply_move_relocate(s, Last(path),
                             move_stack_along_path(s, stack, path))

apply_move_deploy(s, s1) ==
    IF advance_turn_raises(s1) THEN MoveResult(s, TRUE, FALSE, None)
    ELSE MoveResult(advance_turn(s1), FALSE, FALSE, None)

apply_move_result(s, stack, direction, target_node_id) ==
    IF s.dice_value = NoDice THEN MoveResult(s, FALSE, FALSE, None)
    ELSE IF StartsWithBox(stack.node_id)
    THEN apply_move_deploy(s, deploy_from_box(s, stack,
             IF direction # None THEN direction ELSE "CW"))
    ELSE apply_move_along(s, stack,
             move_path(s, stack, direction, target_node_id))

apply_move(s, stack, direction, target_node_id) ==
    apply_move_result(s, stack, direction, target_node_id).state

(***************************************************************************)
(* The engine as a state machine: one action per public engine function,   *)
(* called in any order by the session layer or a test.  call records the   *)
(* last call: its arguments, whether it raised, and for apply_move whether *)
(* the win check fired and where the stack was relocated, for a query the  *)
(* set it returned.                                                        *)
(***************************************************************************)
Call(op, stack, direction, target, r) ==
    [op |-> op, stack |-> stack, direction |-> direction, target |-> target,
     raised |-> r.raised, fired |-> r.fired, dest |-> r.dest, ret |-> {},
     player_id |-> None, seed |-> NoSeed]

NoArg == Stack(None, <<>>)

Plain(raised) == [raised |-> raised, fired |-> FALSE, dest |-> None]

(* The configuration a game is created with: the defaults of GameConfig    *)
(* with HatsPerPlayer pieces per player.                                   *)
Config == [GameConfig EXCEPT !.hats_per_player = HatsPerPlayer]

(* The direction the session layer passes with a destination              *)
(* (select_destination): the first direction with a path that ends there,  *)
(* None when there is none.                                                *)
chosen_direction(s, stack, destination_node) ==
    LET from_box == StartsWithBox(stack.node_id)
        deploy_node == IF HasCurrentPlayer(s)
                       THEN find_deployment_node(current_player(s).color)
                       ELSE None
        start == IF from_box THEN deploy_node ELSE stack.node_id
        steps == IF from_box THEN s.dice_value - 1 ELSE s.dice_value
        directions == IF from_box THEN <<"CW", "CCW">>
                      ELSE get_legal_directions(stack)
        k == FirstIndex(directions, LAMBDA d :
                 \E j \in DOMAIN get_all_possible_paths(start, steps, d) :
                     Last(get_all_possible_paths(start, steps, d)[j])
                         = destination_node)
    IN  IF from_box /\ deploy_node = None THEN None
        ELSE IF from_box /\ s.dice_value = 1
             THEN IF deploy_node = destination_node THEN "CW" ELSE None
        ELSE IF k = 0 THEN None ELSE directions[k]

(* Arguments of apply_move.  A stack of the state or one that is not on    *)
(* the board; a destination with the direction the session layer finds for *)
(* it (a legal destination, a reserve node, a ring node out of reach), a   *)
(* legal destination without a direction, a ring direction without a       *)
(* destination, or a direction with a destination out of reach.            *)
AbsentStack == Stack("outer_30", <<create_hat("YELLOW", 1)>>)

FarNode == "outer_24"

TargetArgs(s, stack) ==
    {FarNode}
        \cup get_legal_destination_nodes(s, stack)
        \cup {BoxNodeId(s.players[p].color) : p \in DOMAIN s.players}

MoveArgs(s) ==
    IF s.dice_value = NoDice THEN {<<AbsentStack, "CW", None>>}
    ELSE
    UNION {{<<st, chosen_direction(s, st, t), t>> : t \in TargetArgs(s, st)} :
              st \in Range(s.stacks)}
    \cup UNION {{<<st, None, t>> : t \in get_legal_destination_nodes(s, st)} :
                   st \in Range(s.stacks)}
    \cup {<<st, d, None>> : st \in Range(s.stacks), d \in {"CW", "CCW"}}
    \cup {<<st, "CW", FarNode>> : st \in Range(s.stacks)}
    \cup {<<AbsentStack, "CW", None>>}

Init ==
    /\ state = init_game(Config)
    /\ call = Call("init_game", NoArg, None, None, Plain(FALSE))
    /\ tasks = NoTasks

(* Players join under the next unused id, as the session layer adds them. *)
AddPlayer ==
    /\ Len(state.turn_order) < NumPlayerIds
    /\ state.turn_count <= MaxJoinTurn
    /\ \E rnd \in 0..Len(state.turn_order) :
         state' = add_player(state, AllPlayerIds[Len(state.turn_order) + 1],
                             FALSE, rnd)
    /\ call' = Call("add_player", NoArg, None, None, Plain(FALSE))
    /\ UNCHANGED tasks

(* The calls below are explored while fewer than limit turns are played. *)
Roll(limit) ==
    /\ state.turn_count < limit
    /\ \E value \in 1..DiceSides : state' = roll_dice(state, value)
    /\ call' = Call("roll_dice", NoArg, None, None, Plain(FALSE))
    /\ UNCHANGED tasks

Move(limit) ==
    /\ state.turn_count < limit
    /\ \E a \in MoveArgs(state) :
         LET r == apply_move_result(state, a[1], a[2], a[3])
         IN  /\ state' = r.state
             /\ call' = Call("apply_move", a[1], a[2], a[3], r)
    /\ UNCHANGED tasks

RollDice == Roll(MaxTurns)

AdvanceTurn ==
    /\ state.turn_count < MaxTurns
    /\ state' = IF advance_turn_raises(state) THEN state ELSE advance_turn(state)
    /\ call' = Call("advance_turn", NoArg, None, None,
                    Plain(advance_turn_raises(state)))
    /\ UNCHANGED tasks

CheckGameOver ==
    /\ state' = IF check_game_over_raises(state) THEN state
                ELSE check_game_over(state)
    /\ call' = Call("check_game_over", NoArg, None, None,
                    [raised |-> check_game_over_raises(state),
                     fired |-> win_check_fires(state), dest |-> None])
    /\ UNCHANGED tasks

ApplyMove == Move(MaxTurns)

Next == AddPlayer \/ RollDice \/ AdvanceTurn \/ CheckGameOver \/ ApplyMove

Spec == Init /\ [][Next]_vars

(***************************************************************************)
(* The session layer (main.py): the handlers of one player's turn.  The    *)
(* stack of select_piece is the client's payload and is not validated.     *)
(***************************************************************************)
(* A roll handler that leaves the turn with a player who cannot move. *)
handle_roll_waiting(s, player_id, value) ==
    [roll_dice(s, value) EXCEPT !.phase = "SELECT_PIECE",
                                !.selected_stack = <<>>]

(* A roll handler that stores the dice and leaves the phase as it was. *)
handle_roll_same_phase(s, player_id, value) ==
    LET s1 == [roll_dice(s, value) EXCEPT !.selected_stack = <<>>]
    IN  IF get_legal_stacks(s1, player_id) = <<>> THEN advance_turn(s1) ELSE s1

handle_roll(s, player_id, value) ==
    LET s1 == [roll_dice(s, value) EXCEPT !.phase = "SELECT_PIECE",
                                          !.selected_stack = <<>>]
    IN  IF get_legal_stacks(s1, player_id) = <<>> THEN advance_turn(s1) ELSE s1

handle_select_piece(s, stack) ==
    LET s1 == [s EXCEPT !.selected_stack = <<stack>>]
    IN  IF get_legal_destination_nodes(s1, stack) # {}
        THEN [s1 EXCEPT !.phase = "SELECT_DIRECTION"]
        ELSE s1

handle_select_destination(s, destination_node) ==
    IF s.selected_stack = <<>> \/ destination_node = None THEN s
    ELSE apply_move(s, s.selected_stack[1],
                    chosen_direction(s, s.selected_stack[1], destination_node),
                    destination_node)

(* One turn of the current player: roll, select the first stack on        *)
(* node_id (for a reserve without a stack in state.stacks, the reserve as  *)
(* a stack), select the destination.                                       *)
session_turn(s, value, node_id, destination_node) ==
    LET on_node == SelectSeq(s.stacks, LAMBDA st : st.node_id = node_id)
        stack == IF on_node # <<>> THEN on_node[1]
                 ELSE Stack(node_id, current_player(s).box_hats)
    IN  handle_select_destination(
            handle_select_piece(
                handle_roll(s, current_player_id(s), value), stack),
            destination_node)

(***************************************************************************)
(* A recorded two-player game, replayed turn by turn through the session   *)
(* layer, and the calls that can follow it.  RED captures a GREEN piece,   *)
(* empties its reserve, banks the captive and deploys it again; at the end *)
(* RED's safe node outer_3 holds two GREEN-controlled stacks and one RED   *)
(* stack, and a third GREEN-controlled stack stands four steps away.       *)
(* Each turn of the script is <<dice value, node of the stack,             *)
(* destination>>.                                                          *)
(***************************************************************************)
ReplayHats == 3

ReplayTurns == 1

ReplayConfig == [GameConfig EXCEPT !.hats_per_player = ReplayHats]

ReplayPlayers == <<"p1", "p2">>

ReplayScript ==
    << <<6, "box_red", "outer_5">>,  <<6, "box_green", "outer_7">>,
       <<2, "outer_5", "outer_7">>,  <<1, "box_green", "outer_12">>,
       <<1, "box_red", "outer_0">>,  <<3, "outer_12", "outer_9">>,
       <<2, "box_red", "outer_47">>, <<1, "outer_9", "outer_8">>,
       <<6, "outer_7", "outer_1">>,  <<1, "outer_8", "outer_7">>,
       <<2, "outer_1", "box_red">>,  <<4, "outer_7", "outer_3">>,
       <<4, "box_red", "outer_3">>,  <<6, "box_green", "outer_7">>,
       <<4, "box_red", "outer_3">> >>

InitReplay ==
    /\ state = init_game(ReplayConfig)
    /\ call = Call("init_game", NoArg, None, None, Plain(FALSE))
    /\ tasks = NoTasks

ReplayJoin ==
    /\ Len(state.turn_order) < Len(ReplayPlayers)
    /\ state' = add_player(state, ReplayPlayers[Len(state.turn_order) + 1],
                           FALSE, 0)
    /\ call' = Call("add_player", NoArg, None, None, Plain(FALSE))
    /\ UNCHANGED tasks

ReplayTurn ==
    /\ Len(state.turn_order) = Len(ReplayPlayers)
    /\ state.turn_count < Len(ReplayScript)
    /\ state' = session_turn(state, ReplayScript[state.turn_count + 1][1],
                             ReplayScript[state.turn_count + 1][2],
                             ReplayScript[state.turn_count + 1][3])
    /\ call' = Call("session_turn", NoArg, None,
                    ReplayScript[state.turn_count + 1][3], Plain(FALSE))
    /\ UNCHANGED tasks

ReplayRoll ==
    /\ state.turn_count >= Len(ReplayScript)
    /\ Roll(Len(ReplayScript) + ReplayTurns)

ReplayMove ==
    /\ state.turn_count >= Len(ReplayScript)
    /\ Move(Len(ReplayScript) + ReplayTurns)

NextReplay == ReplayJoin \/ ReplayTurn \/ ReplayRoll \/ ReplayMove

SpecReplay == InitReplay /\ [][NextReplay]_vars

(***************************************************************************)
(* The destination query on its own: a started game with any dice value,   *)
(* asked for the destinations of any stack standing on a board node.       *)
(***************************************************************************)
StartedGame ==
    add_player(add_player(init_game(Config), "p1", FALSE, 0), "p2", FALSE, 0)

QueryStacks ==
    {Stack(n, pieces) :
        n \in NodeIds \ BoxSet,
        pieces \in UNION {{<<create_hat(c, 1)>>,
                           <<create_hat("RED", 2), create_hat(c, 1)>>} :
                          c \in Colors}}

InitQuery ==
    \E value \in 1..DiceSides, stack \in QueryStacks :
        /\ state = roll_dice(StartedGame, value)
        /\ call = Call("select_piece", stack, None, None, Plain(FALSE))
        /\ tasks = NoTasks

GetLegalDestinationNodes ==
    /\ call.op = "select_piece"
    /\ call' = [Call("get_legal_destination_nodes", call.stack, None, None,
                     Plain(FALSE))
                   EXCEPT !.ret = get_legal_destination_nodes(state, call.stack)]
    /\ UNCHANGED <<state, tasks>>

NextQuery == GetLegalDestinationNodes

SpecQuery == InitQuery /\ [][NextQuery]_vars

(***************************************************************************)
(* The lobby: games of one to MaxSeats seats that players join one after   *)
(* the other, with the calls that need no stack on the board.  The call of *)
(* add_player records in ret the value random.randint would draw for the   *)
(* starting seat.                                                          *)
(***************************************************************************)
MaxSeats == 4

NumLobbyIds == 5

LobbyTurns == 2

LobbyPlayerIds == <<"p1", "p2", "p3", "p4", "p5", "p6">>

InitLobby ==
    \E max_players \in 1..MaxSeats :
        /\ state = init_game([Config EXCEPT !.max_players = max_players])
        /\ call = Call("init_game", NoArg, None, None, Plain(FALSE))
        /\ tasks = NoTasks

LobbyJoin ==
    /\ Len(state.turn_order) < NumLobbyIds
    /\ \E rnd \in 0..Len(state.turn_order) :
         /\ state' = add_player(state,
                                LobbyPlayerIds[Len(state.turn_order) + 1],
                                FALSE, rnd)
         /\ call' = [Call("add_player", NoArg, None, None, Plain(FALSE))
                        EXCEPT !.ret = {rnd}]
    /\ UNCHANGED tasks

LobbyRoll == Roll(LobbyTurns)

LobbyAdvance ==
    /\ state.turn_count < LobbyTurns
    /\ state' = IF advance_turn_raises(state) THEN state ELSE advance_turn(state)
    /\ call' = Call("advance_turn", NoArg, None, None,
                    Plain(advance_turn_raises(state)))
    /\ UNCHANGED tasks

LobbyCheck == CheckGameOver

NextLobby == LobbyJoin \/ LobbyRoll \/ LobbyAdvance \/ LobbyCheck

SpecLobby == InitLobby /\ [][NextLobby]_vars

(***************************************************************************)
(* determine_winner on its own: games of one to MaxWinners players whose   *)
(* reserves hold any of a few mixes of own and captured pieces.            *)
(***************************************************************************)
MaxWinners == 3

(* The reserves a player of the colour may hold: none, one or two own      *)
(* pieces, with or without a piece of another colour.                      *)
ReserveMixes(color) ==
    LET other == IF color = "RED" THEN "YELLOW" ELSE "RED"
    IN  {<<>>, <<create_hat(color, 1)>>,
         <<create_hat(color, 1), create_hat(color, 2)>>,
         <<create_hat(other, 1)>>,
         <<create_hat(other, 1), create_hat(color, 1)>>}

(* The game of n joined players with the given reserves. *)
RECURSIVE JoinedGame(_)
JoinedGame(n) ==
    IF n = 0 THEN init_game(Config)
    ELSE add_player(JoinedGame(n - 1), AllPlayerIds[n], FALSE, 0)

WithReserves(s, reserves) ==
    [s EXCEPT !.players =
         [p \in DOMAIN s.players |->
              [s.players[p] EXCEPT !.box_hats = reserves[s.players[p].color]]]]

InitWinner ==
    \E n \in 1..MaxWinners :
        \E reserves \in [Colors -> UNION {ReserveMixes(c) : c \in Colors}] :
            /\ \A c \in Colors :
                   reserves[c] \in
                       IF \E i \in 1..n : PlayerColor[i] = c
                       THEN ReserveMixes(c) ELSE {<<>>}
            /\ state = WithReserves(JoinedGame(n), reserves)
            /\ call = Call("init_game", NoArg, None, None, Plain(FALSE))
            /\ tasks = NoTasks

DetermineWinner ==
    /\ call.op = "init_game"
    /\ state' = determine_winner(state)
    /\ call' = Call("determine_winner", NoArg, None, None, Plain(FALSE))
    /\ UNCHANGED tasks

NextWinner == DetermineWinner

SpecWinner == InitWinner /\ [][NextWinner]_vars

(***************************************************************************)
(* The dice and the two legal-move queries on their own: positions of a    *)
(* game of two in which one stack stands on any board node, with           *)
(* require_6_to_deploy off or on.                                          *)
(***************************************************************************)
MaxSeed == 7

Seeds == 0..MaxSeed

(* random.seed(seed) followed by random.randint(1, 6), as CPython's        *)
(* generator yields it for the seeds 0, 1, 2, ...                          *)
SeedTable == <<4, 2, 1, 2, 2, 5, 5, 3, 2, 4, 5, 4>>

randint_seeded(seed) == SeedTable[seed + 1]

(* The values roll_dice can draw: without a seed any face. *)
dice_draws_unseeded(seed) == 1..DiceSides

dice_draws(seed) ==
    IF seed = NoSeed THEN 1..DiceSides ELSE {randint_seeded(seed)}

(* The position in which the pieces stand as one stack on the node and are *)
(* no longer in their owners' reserves.                                    *)
Placed(s, node_id, pieces) ==
    LET rest(hats) == SelectSeq(hats, LAMBDA h : h \notin Range(pieces))
    IN  [s EXCEPT
           !.players = [p \in DOMAIN s.players |->
                           [s.players[p] EXCEPT !.box_hats = rest(@)]],
           !.stacks = [k \in DOMAIN s.stacks |->
                           [s.stacks[k] EXCEPT !.pieces = rest(@)]]
                      \o <<Stack(node_id, pieces)>>]

PlacedPieces ==
    {<<create_hat("RED", 1)>>, <<create_hat("GREEN", 1)>>,
     <<create_hat("RED", 1), create_hat("GREEN", 1)>>,
     <<create_hat("GREEN", 1), create_hat("RED", 1)>>}

LegalGame(require_6) ==
    add_player(add_player(
        init_game([Config EXCEPT !.require_6_to_deploy = require_6]),
        "p1", FALSE, 0), "p2", FALSE, 0)

InitLegal ==
    \E require_6 \in BOOLEAN :
        /\ \/ state = LegalGame(require_6)
           \/ \E n \in NodeIds \ BoxSet, pieces \in PlacedPieces :
                  state = Placed(LegalGame(require_6), n, pieces)
        /\ call = Call("init_game", NoArg, None, None, Plain(FALSE))
        /\ tasks = NoTasks

RollSeeded ==
    /\ \E seed \in Seeds \cup {NoSeed} :
         \E value \in dice_draws(seed) :
            /\ state' = roll_dice(state, value)
            /\ call' = [Call("roll_dice", NoArg, None, None, Plain(FALSE))
                           EXCEPT !.seed = seed, !.ret = {value}]
    /\ UNCHANGED tasks

(* The state object after a query that clears the dice on the way. *)
state_after_query_clearing(s) == [s EXCEPT !.dice_value = NoDice]

(* The state object after get_legal_stacks or get_legal_destination_nodes: *)
(* neither assigns a field of it nor calls anything that does.             *)
state_after_query(s) == s

GetLegalStacks ==
    /\ \E p \in PlayerIds \cup {"p9"} :
         call' = [Call("get_legal_stacks", NoArg, None, None, Plain(FALSE))
                     EXCEPT !.player_id = p,
                            !.ret = get_legal_stacks(state, p)]
    /\ state' = state_after_query(state)
    /\ UNCHANGED tasks

LegalDestinations ==
    /\ \E stack \in Range(state.stacks) :
         call' = [Call("get_legal_destination_nodes", stack, None, None,
                       Plain(FALSE))
                     EXCEPT !.ret = get_legal_destination_nodes(state, stack)]
    /\ state' = state_after_query(state)
    /\ UNCHANGED tasks

NextLegal == RollSeeded \/ GetLegalStacks \/ LegalDestinations

SpecLegal == InitLegal /\ [][NextLegal]_vars

(***************************************************************************)
(* One room of the session layer (main.py, connection.py).  state is the   *)
(* value stored under the room's key, NoState while nothing is stored;     *)
(* get_state returns a copy of it and save_state replaces it.  Every       *)
(* coroutine reads the stored value, computes on its copy and stores the   *)
(* copy with a later await of its own; no lock is taken in between.  A     *)
(* connection is named by the player id of its URL.                        *)
(***************************************************************************)
NoState == <<>>

NumConnections == 2

RoomTurns == 1

Connections == {AllPlayerIds[i] : i \in 1..NumConnections}

bot_id ==
    [c \in Colors |-> CASE c = "RED" -> "bot_red"
                        [] c = "GREEN" -> "bot_green"
                        [] c = "BLUE" -> "bot_blue"
                        [] c = "YELLOW" -> "bot_yellow"]

available_colors(s) ==
    SelectSeq(PlayerColor,
              LAMBDA c : c \notin {s.players[p].color : p \in DOMAIN s.players})

(* The loop that seats bots while the phase is WAITING. *)
RECURSIVE fill_bots(_, _)
fill_bots(s, rnd) ==
    IF Cardinality(DOMAIN s.players) < s.config.max_players
       /\ s.phase = "WAITING"
       /\ available_colors(s) # <<>>
    THEN fill_bots(add_player(s, bot_id[available_colors(s)[1]], TRUE, rnd),
                   rnd)
    ELSE s

(* The connect path from the stored value to the value it saves. *)
connect_path(stored, player_id, rnd) ==
    LET s0 == IF stored = NoState THEN init_game(GameConfig) ELSE stored
    IN  IF player_id \in DOMAIN s0.players THEN s0
        ELSE IF available_colors(s0) = <<>> THEN s0
        ELSE fill_bots(add_player(s0, player_id, FALSE, rnd), rnd)

handle_select_direction(s, direction) ==
    IF s.selected_stack = <<>> \/ direction = None THEN s
    ELSE apply_move(s, s.selected_stack[1], direction, None)

(* A client action: its type and payload. *)
ClientAction(type, value, stack, node_id, direction) ==
    [type |-> type, value |-> value, stack |-> stack, node_id |-> node_id,
     direction |-> direction]

NoAction == ClientAction(None, NoDice, NoArg, None, None)

(* The actions a client may send while s is stored: a roll, a stack of the *)
(* state, a destination of the selected stack or a node out of reach, a    *)
(* direction.  value is the value random.randint draws for a roll.         *)
ClientActions(s) ==
    {ClientAction("roll", v, NoArg, None, None) : v \in 1..DiceSides}
    \cup {ClientAction("select_piece", NoDice, st, None, None) :
              st \in Range(s.stacks)}
    \cup {ClientAction("select_destination", NoDice, NoArg, n, None) :
              n \in {FarNode} \cup
                    (IF s.selected_stack = <<>> THEN {}
                     ELSE get_legal_destination_nodes(s, s.selected_stack[1]))}
    \cup {ClientAction("select_direction", NoDice, NoArg, None, "CW")}

(* The handler of one action, from the value read to the value saved. *)
handle_action(s, player_id, action) ==
    CASE action.type = "roll" -> handle_roll(s, player_id, action.value)
      [] action.type = "select_piece" -> handle_select_piece(s, action.stack)
      [] action.type = "select_destination" ->
             handle_select_destination(s, action.node_id)
      [] action.type = "select_direction" ->
             handle_select_direction(s, action.direction)
      [] OTHER -> s

(* select_destination searches the paths before apply_move looks at the    *)
(* dice: without a dice value the search raises TypeError (None - 1, or    *)
(* range(None) inside get_all_possible_paths).                             *)
handle_select_destination_raises(s, destination_node) ==
    /\ s.selected_stack # <<>>
    /\ destination_node # None
    /\ \/ /\ s.dice_value = NoDice
          /\ IF StartsWithBox(s.selected_stack[1].node_id)
             THEN /\ HasCurrentPlayer(s)
                  /\ find_deployment_node(current_player(s).color) # None
             ELSE get_legal_directions(s.selected_stack[1]) # <<>>
       \/ /\ s.dice_value # NoDice
          /\ apply_move_result(s, s.selected_stack[1],
                 chosen_direction(s, s.selected_stack[1], destination_node),
                 destination_node).raised

handle_select_direction_raises(s, direction) ==
    /\ s.selected_stack # <<>>
    /\ direction # None
    /\ apply_move_result(s, s.selected_stack[1], direction, None).raised

(* Whether the handler of the action raises; websocket_endpoint catches    *)
(* WebSocketDisconnect only, so the exception ends the connection's        *)
(* coroutine before anything is saved.                                     *)
handle_action_raises(s, action) ==
    CASE action.type = "select_destination" ->
             handle_select_destination_raises(s, action.node_id)
      [] action.type = "select_direction" ->
             handle_select_direction_raises(s, action.direction)
      [] OTHER -> FALSE

(* A coroutine between its get_state and its save_state: base is the value *)
(* it read, local the value it is going to save.                           *)
Task(pc, action, base, local) ==
    [pc |-> pc, action |-> action, base |-> base, local |-> local]

Closed == Task("closed", NoAction, NoState, NoState)

Idle == Task("idle", NoAction, NoState, NoState)

InitRoom ==
    /\ state = NoState
    /\ call = Call("startup", NoArg, None, None, Plain(FALSE))
    /\ tasks = [conn |-> [c \in Connections |-> Closed], bot |-> "off"]

(* websocket_endpoint up to the save of the connect path; the first        *)
(* connection of a room starts the bot watcher.                            *)
Connect ==
    \E c \in Connections, rnd \in 0..(GameConfig.max_players - 1) :
        /\ tasks.conn[c].pc = "closed"
        /\ tasks' = [tasks EXCEPT
               !.conn[c] = Task("connect", NoAction, state,
                                connect_path(state, c, rnd)),
               !.bot = IF state = NoState /\ tasks.bot = "off" THEN "run"
                       ELSE tasks.bot]
        /\ call' = Call("connect", NoArg, None, None, Plain(FALSE))
        /\ UNCHANGED state

(* The turn-owner check that lets every sender through. *)
is_turn_owner_any(s, player_id) == TRUE

(* The turn-owner check of the receive loop. *)
is_turn_owner(s, player_id) == current_player_id(s) = player_id

(* An action arrives: get_state, the turn-owner check and the handler up   *)
(* to its save_state.  A sender who is not the turn owner gets the notice  *)
(* "Not your turn" on the own websocket (ret: the receivers) and nothing   *)
(* is saved.  Actions are explored while fewer than limit turns are stored.*)
ReceiveWithin(limit) ==
    \E c \in Connections :
        /\ tasks.conn[c].pc = "idle"
        /\ state # NoState
        /\ state.turn_count < limit
        /\ \E action \in ClientActions(state) :
             IF ~is_turn_owner(state, c)
             THEN /\ call' = [Call("not_your_turn", NoArg, None, None,
                                   Plain(FALSE))
                                 EXCEPT !.player_id = c, !.ret = {c}]
                  /\ UNCHANGED tasks
             ELSE IF handle_action_raises(state, action)
             THEN /\ call' = Call(action.type, NoArg, None, None, Plain(TRUE))
                  /\ tasks' = [tasks EXCEPT !.conn[c] = Closed]
             ELSE /\ call' = Call(action.type, NoArg, None, None, Plain(FALSE))
                  /\ tasks' = [tasks EXCEPT !.conn[c] =
                                   Task("action", action, state,
                                        handle_action(state, c, action))]
        /\ UNCHANGED state

Receive == ReceiveWithin(RoomTurns)

(* The save_state that ends the connect path or a handler of c. *)
Save(c) ==
    /\ tasks.conn[c].pc \in {"connect", "action"}
    /\ state' = tasks.conn[c].local
    /\ tasks' = [tasks EXCEPT !.conn[c] = Idle]
    /\ call' = Call("save_state", NoArg, None, None, Plain(FALSE))

SaveState == \E c \in Connections : Save(c)

(* One poll of bot_watcher_task: it ends when nothing is stored or the     *)
(* game is over.  It plays only on the turn of a seated bot, and           *)
(* connect_path seats none: the phase leaves WAITING with the first join.  *)
BotWatcher ==
    /\ tasks.bot = "run"
    /\ tasks' = [tasks EXCEPT !.bot =
                     IF state = NoState THEN "done"
                     ELSE IF state.phase = "GAME_OVER" THEN "done"
                     ELSE "run"]
    /\ call' = Call("bot_watcher", NoArg, None, None, Plain(FALSE))
    /\ UNCHANGED state

NextRoom == Connect \/ Receive \/ SaveState \/ BotWatcher

SpecRoom == InitRoom /\ [][NextRoom]_vars

(***************************************************************************)
(* A room late in a game of two.  The clients first play four turns: p1    *)
(* deploys a piece on a 1, p2 deploys, p1 brings the piece home on a 1,    *)
(* which leaves p1 without a stack to select, and p2 deploys again.  Then  *)
(* it is p1's turn and actions arrive as in any room.  Every handler that  *)
(* has read the state reaches its save_state: its awaits (send_json, the   *)
(* 1.5 s sleep) all return.                                                *)
(***************************************************************************)
StallSetup == 4

StallTurns == 5

(* The faces p2 rolls during the setup. *)
StallFaces == 2

(* The reserve stack of the colour as the client sees it in the state. *)
box_stack(s, color) ==
    CHOOSE st \in Range(s.stacks) : st.node_id = BoxNodeId(color)

(* The move of the setup's next turn: the stack and the target. *)
StallMove(s) ==
    CASE s.turn_count = 0 -> <<box_stack(s, "RED"), None>>
      [] s.turn_count = 2 ->
             <<Stack("outer_0", <<create_hat("RED", 1)>>), "box_red">>
      [] OTHER -> <<box_stack(s, "GREEN"), None>>

InitStall ==
    /\ state = connect_path(connect_path(NoState, "p1", 0), "p2", 0)
    /\ call = Call("startup", NoArg, None, None, Plain(FALSE))
    /\ tasks = [conn |-> [c \in Connections |-> Idle], bot |-> "run"]

(* One turn of the setup: roll, select_piece and select_destination of the *)
(* turn owner, handled one after the other.                                *)
StallPlay ==
    /\ state.turn_count < StallSetup
    /\ \E value \in IF state.turn_count \in {0, 2} THEN {1}
                     ELSE 1..StallFaces :
         state' = apply_move(roll_dice(state, value), StallMove(state)[1],
                             IF StallMove(state)[2] = None THEN "CW" ELSE None,
                             StallMove(state)[2])
    /\ call' = Call("apply_move", NoArg, None, None, Plain(FALSE))
    /\ UNCHANGED tasks

StallReceive ==
    /\ state.turn_count >= StallSetup
    /\ ReceiveWithin(StallTurns)

NextStall == StallPlay \/ StallReceive \/ SaveState \/ BotWatcher

SpecStall ==
    /\ InitStall
    /\ [][NextStall]_vars
    /\ \A c \in Connections : WF_vars(Save(c))

(***************************************************************************)
(* A room whose storage may be unavailable for a single call: get_state    *)
(* then yields nothing and save_state stores nothing, both without         *)
(* raising.  p1 has connected and the game is stored.                      *)
(***************************************************************************)
(* ConnectionManager.get_state: the stored value, nothing on a connection  *)
(* error.                                                                  *)
get_state(stored, available) == IF available THEN stored ELSE NoState

InitOutage ==
    /\ state = connect_path(NoState, "p1", 0)
    /\ call = Call("startup", NoArg, None, None, Plain(FALSE))
    /\ tasks = [conn |-> [c \in Connections |->
                              IF c = "p1" THEN Idle ELSE Closed],
                bot |-> "run"]

(* websocket_endpoint up to the save of the connect path. *)
ConnectOutage ==
    \E c \in Connections, available \in BOOLEAN :
        /\ tasks.conn[c].pc = "closed"
        /\ tasks' = [tasks EXCEPT
               !.conn[c] = Task("connect", NoAction,
                                get_state(state, available),
                                connect_path(get_state(state, available),
                                             c, 0))]
        /\ call' = Call("connect", NoArg, None, None, Plain(~available))
        /\ UNCHANGED state

(* An action arrives while get_state yields nothing: it is dropped. *)
DropAction ==
    \E c \in Connections :
        /\ tasks.conn[c].pc = "idle"
        /\ get_state(state, FALSE) = NoState
        /\ call' = Call("no_state", NoArg, None, None, Plain(TRUE))
        /\ UNCHANGED <<state, tasks>>

(* A save_state that meets a connection error: logged, nothing stored. *)
SaveLost ==
    \E c \in Connections :
        /\ tasks.conn[c].pc \in {"connect", "action"}
        /\ tasks' = [tasks EXCEPT !.conn[c] = Idle]
        /\ call' = Call("save_state", NoArg, None, None, Plain(TRUE))
        /\ UNCHANGED state

(* One poll of bot_watcher_task: it ends for good when get_state yields    *)
(* nothing or the game is over.                                            *)
BotWatcherOutage ==
    \E available \in BOOLEAN :
        /\ tasks.bot = "run"
        /\ tasks' = [tasks EXCEPT !.bot =
                         IF get_state(state, available) = NoState THEN "done"
                         ELSE IF state.phase = "GAME_OVER" THEN "done"
                         ELSE "run"]
        /\ call' = Call("bot_watcher", NoArg, None, None, Plain(~available))
        /\ UNCHANGED state

NextOutage ==
    \/ ConnectOutage
    \/ Receive
    \/ DropAction
    \/ SaveState
    \/ SaveLost
    \/ BotWatcherOutage

SpecOutage == InitOutage /\ [][NextOutage]_vars

(***************************************************************************)
(* A game of two in which RED has deployed both pieces onto outer_1, a     *)
(* plain ring node: deploy_from_box appends the new stack without looking  *)
(* at the node, so outer_1 holds two stacks.  GREEN stands on outer_7, six *)
(* steps away.  The opening is played through the session layer, turn by   *)
(* turn as in ReplayScript; any roll and move can follow.                  *)
(***************************************************************************)
PileTurns == 1

PileScript ==
    << <<2, "box_red", "outer_1">>, <<6, "box_green", "outer_7">>,
       <<2, "box_red", "outer_1">> >>

InitPile ==
    /\ state = StartedGame
    /\ call = Call("add_player", NoArg, None, None, Plain(FALSE))
    /\ tasks = NoTasks

PileTurn ==
    /\ state.turn_count < Len(PileScript)
    /\ state' = session_turn(state, PileScript[state.turn_count + 1][1],
                             PileScript[state.turn_count + 1][2],
                             PileScript[state.turn_count + 1][3])
    /\ call' = Call("session_turn", NoArg, None,
                    PileScript[state.turn_count + 1][3], Plain(FALSE))
    /\ UNCHANGED tasks

PileRoll ==
    /\ state.turn_count >= Len(PileScript)
    /\ Roll(Len(PileScript) + PileTurns)

PileMove ==
    /\ state.turn_count >= Len(PileScript)
    /\ Move(Len(PileScript) + PileTurns)

NextPile == PileTurn \/ PileRoll \/ PileMove

SpecPile == InitPile /\ [][NextPile]_vars

(***************************************************************************)
(* The path enumeration on its own: get_all_possible_paths called for any  *)
(* node of the board, any step count from 0 to the highest dice value and  *)
(* any direction or none.  The call records the start node and the step    *)
(* count with the list of paths returned.                                  *)
(***************************************************************************)
InitPaths ==
    /\ state = StartedGame
    /\ call = Call("add_player", NoArg, None, None, Plain(FALSE))
    /\ tasks = NoTasks

GetAllPossiblePaths ==
    /\ call.op = "add_player"
    /\ \E start \in NodeIds, distance \in 0..DiceSides,
          direction \in Direction \cup {None} :
         call' = [Call("get_all_possible_paths", NoArg, direction, None,
                       Plain(FALSE))
                     EXCEPT !.ret =
                         [start |-> start, distance |-> distance,
                          paths |-> get_all_possible_paths(start, distance,
                                                           direction)]]
    /\ UNCHANGED <<state, tasks>>

NextPaths == GetAllPossiblePaths

SpecPaths == InitPaths /\ [][NextPaths]_vars

(***************************************************************************)
(* Properties.                                                             *)
(***************************************************************************)
(* The stacks of the state that stand on a board node, not on a reserve. *)
board_stacks(s) == SelectSeq(s.stacks, LAMBDA st : ~StartsWithBox(st.node_id))

(* The players of the state in joining order. *)
players_of(s) == [i \in DOMAIN s.turn_order |-> s.players[s.turn_order[i]]]

(* C1: in every reachable state every stack of state.stacks holds at      *)
(* least one piece and is controlled by the colour of its top piece; no    *)
(* empty stack is left in state.stacks.                                    *)
StackInvariant ==
    \A k \in DOMAIN state.stacks :
        /\ Len(state.stacks[k].pieces) >= 1
        /\ controller(state.stacks[k])
               = state.stacks[k].pieces[Len(state.stacks[k].pieces)].color

(* C2: at every point of a game the pieces in all reserves, all banked     *)
(* lists and all stacks on the board number players x hats_per_player.     *)
(* The stacks on the board are those on a board node: a stack on a reserve *)
(* node repeats the reserve it stands for.                                 *)
Conservation ==
    Len(Flatten([i \in DOMAIN players_of(state) |->
                     players_of(state)[i].box_hats]))
    + Len(Flatten([i \in DOMAIN players_of(state) |->
                       players_of(state)[i].banked_hats]))
    + Len(Flatten([i \in DOMAIN board_stacks(state) |->
                       board_stacks(state)[i].pieces]))
    = Len(state.turn_order) * state.config.hats_per_player

(* C3: when the win check fires during apply_move, the returned state has  *)
(* phase GAME_OVER with the winner set: the turn is not advanced and the   *)
(* phase is not reset to ROLL.                                             *)
GameEndKeepsPhase ==
    (call.op = "apply_move" /\ call.fired /\ ~call.raised)
        => (state.phase = "GAME_OVER" /\ state.winner # <<>>)

(* C4: GAME_OVER is terminal: once the state has phase GAME_OVER, a roll   *)
(* or a move changes neither the phase, the stacks, the reserves nor the   *)
(* current turn.                                                           *)
GameOverTerminal ==
    [][(state.phase = "GAME_OVER" /\ call'.op \in {"roll_dice", "apply_move"})
         => /\ state'.phase = "GAME_OVER"
            /\ state'.stacks = state.stacks
            /\ \A p \in DOMAIN state.players :
                   state'.players[p].box_hats = state.players[p].box_hats
            /\ state'.current_turn_index = state.current_turn_index
            /\ state'.turn_count = state.turn_count]_vars

(* The stacks of s on node_id other than the one at index m. *)
residents(s, node_id, m) ==
    {k \in DOMAIN s.stacks : k # m /\ s.stacks[k].node_id = node_id}

(* C5: when apply_move brings a stack B onto a node that is neither safe   *)
(* nor a reserve and holds one resident stack A, the node afterwards holds *)
(* the single stack A.pieces followed by B.pieces, controlled by B's       *)
(* controller before the move.                                             *)
MergeOrdering ==
    [][(/\ call'.op = "apply_move"
        /\ ~call'.raised
        /\ call'.dest # None
        /\ ~is_safe_color(call'.dest)
        /\ ~is_box(call'.dest))
         => \A a \in residents(state, call'.dest,
                               move_stack_along_path(state, call'.stack, <<>>)) :
                residents(state, call'.dest,
                          move_stack_along_path(state, call'.stack, <<>>)) = {a}
                  => /\ \E j \in DOMAIN state'.stacks :
                            /\ residents(state', call'.dest, j) = {}
                            /\ state'.stacks[j] =
                                   Stack(call'.dest,
                                         state.stacks[a].pieces
                                             \o call'.stack.pieces)
                     /\ controller(Stack(call'.dest,
                                         state.stacks[a].pieces
                                             \o call'.stack.pieces))
                            = controller(call'.stack)]_vars

(* C5 witness: a move has put its stack on top of a resident stack of      *)
(* another controller on a node that is neither safe nor a reserve.        *)
MergeOrderingWitness ==
    /\ call.op = "apply_move"
    /\ ~call.raised
    /\ call.dest # None
    /\ ~is_safe_color(call.dest)
    /\ ~is_box(call.dest)
    /\ \E k \in DOMAIN state.stacks :
           LET pieces == state.stacks[k].pieces
               below == Len(pieces) - Len(call.stack.pieces)
           IN  /\ state.stacks[k].node_id = call.dest
               /\ below >= 1
               /\ SubSeq(pieces, below + 1, Len(pieces)) = call.stack.pieces
               /\ pieces[below].color # controller(call.stack)
               /\ controller(state.stacks[k]) = controller(call.stack)

(* A stack on the safe node of its controller's colour. *)
protected(stack) ==
    /\ is_safe_color(stack.node_id)
    /\ controller(stack) = Board[stack.node_id].color

(* C6: a stack whose controller has the colour of the SAFE_COLOR node it   *)
(* occupies is not removed from state.stacks, merged into another stack or *)
(* changed in its pieces by another stack's move onto that node.           *)
SafeZone ==
    [][(call'.op = "apply_move" /\ call'.dest # None)
         => \A k \in residents(state, call'.dest,
                               move_stack_along_path(state, call'.stack, <<>>)) :
                protected(state.stacks[k])
                    => \E j \in DOMAIN state'.stacks :
                           state'.stacks[j] = state.stacks[k]]_vars

(* The nodes within n steps of a node along the neighbour lists. *)
RECURSIVE Within(_, _)
Within(node_id, n) ==
    IF n = 0 THEN {node_id}
    ELSE LET near == Within(node_id, n - 1)
         IN  near \cup UNION {Range(Neighbors(x)) : x \in near}

(* The shortest graph distance from a to b is n. *)
ShortestDistanceIs(a, b, n) ==
    /\ b \in Within(a, n)
    /\ n = 0 \/ b \notin Within(a, n - 1)

(* C7: for every board node, controller colour and dice value,             *)
(* get_legal_destination_nodes for a board stack contains the reserve node *)
(* of the stack's controller if and only if the shortest graph distance    *)
(* from the stack's node to that reserve node equals the dice value.       *)
DistanceMatchReturn ==
    call.op = "get_legal_destination_nodes"
        => (BoxNodeId(controller(call.stack)) \in call.ret
              <=> ShortestDistanceIs(call.stack.node_id,
                                     BoxNodeId(controller(call.stack)),
                                     state.dice_value))

(* C7 witness: the query returned the reserve node of the controller for   *)
(* a stack that stands more than one step away from it.                    *)
DistanceMatchWitness ==
    /\ call.op = "get_legal_destination_nodes"
    /\ BoxNodeId(controller(call.stack)) \in call.ret
    /\ state.dice_value > 1

(* C8: apply_move for a board stack with a target that is not among its    *)
(* legal destinations returns the state unchanged: the stack is not moved  *)
(* and the turn is not advanced.                                           *)
IllegalTargetNoOp ==
    [][(/\ call'.op = "apply_move"
        /\ ~StartsWithBox(call'.stack.node_id)
        /\ call'.target # None
        /\ call'.target \notin get_legal_destination_nodes(state, call'.stack))
         => state' = state]_vars

(* C9: apply_move for a reserve stack that is not among the legal stacks   *)
(* of the current player returns the state unchanged: no piece leaves a    *)
(* reserve, no stack is created and the turn is not advanced.              *)
IllegalReserveNoOp ==
    [][(/\ call'.op = "apply_move"
        /\ StartsWithBox(call'.stack.node_id)
        /\ call'.stack \notin
               Range(get_legal_stacks(state, current_player_id(state))))
         => state' = state]_vars

(* C10: for every reachable state and every argument the engine            *)
(* operations complete without raising.                                    *)
NoException == ~call.raised

(* The connections that are about to save. *)
saving(c) == tasks.conn[c].pc \in {"connect", "action"}

(* C11: the read-modify-write sequences on one room never overlap: every   *)
(* value that is saved was computed from the value stored at the moment of *)
(* the save, so no saved action is overwritten by a write based on an      *)
(* older read.                                                             *)
NoLostUpdate ==
    [][\A c \in Connections :
           (saving(c) /\ tasks'.conn[c].pc = "idle")
               => state = tasks.conn[c].base]_vars

(* The phase in which the session accepts an action of the type. *)
PhaseOf(type) ==
    CASE type = "roll" -> "ROLL"
      [] type = "select_piece" -> "SELECT_PIECE"
      [] type = "select_destination" -> "SELECT_DIRECTION"
      [] type = "select_direction" -> "SELECT_DIRECTION"
      [] OTHER -> None

(* C12: each session action is gated by the phase: a handler that read a   *)
(* state whose phase is not the phase of its action saves that state       *)
(* unchanged.                                                              *)
PhaseGate ==
    \A c \in Connections :
        (/\ tasks.conn[c].pc = "action"
         /\ tasks.conn[c].base.phase # PhaseOf(tasks.conn[c].action.type))
            => tasks.conn[c].local = tasks.conn[c].base

(* No bot is seated in a stored state, and no stored state is over. *)
RoomSanity ==
    state # NoState =>
        /\ \A p \in DOMAIN state.players : ~state.players[p].is_bot
        /\ state.phase # "GAME_OVER"

(* C13: the phase stays WAITING while fewer than config.max_players        *)
(* players have joined and changes to ROLL exactly at the add_player call  *)
(* that brings the player count to config.max_players.                     *)
StartAtFullTable ==
    [][(call'.op = "add_player" /\ state.phase = "WAITING")
         => state'.phase =
                IF Len(state'.turn_order) = state.config.max_players
                THEN "ROLL" ELSE "WAITING"]_vars

(* A game in which nothing but joins has happened. *)
only_joins(s) ==
    s.turn_count = 0 /\ s.dice_value = NoDice /\ s.winner = <<>>

StartSeatDrawn ==
    [][(/\ call'.op = "add_player"
        /\ state.config.max_players >= 2
        /\ Len(state.turn_order) + 1 = state.config.max_players
        /\ Len(state'.turn_order) = state.config.max_players)
         => state'.current_turn_index \in call'.ret]_vars

(* The id of the player of the colour, None when no player has it. *)
player_of_color(s, color) ==
    IF \E p \in DOMAIN s.players : s.players[p].color = color
    THEN CHOOSE p \in DOMAIN s.players : s.players[p].color = color
    ELSE None

(* The pieces of the sequence that are not of the colour. *)
foreign(pieces, color) == SelectSeq(pieces, LAMBDA h : h.color # color)

(* A stack of the current player is moved by apply_move onto the reserve   *)
(* node of its controller, which holds nothing but the reserve itself.     *)
returns_home(s, c) ==
    /\ c.op = "apply_move"
    /\ ~c.raised
    /\ c.dest # None
    /\ HasCurrentPlayer(s)
    /\ controller(c.stack) = current_player(s).color
    /\ c.dest = BoxNodeId(controller(c.stack))
    /\ \A k \in DOMAIN s.stacks :
           s.stacks[k].node_id = c.dest
               => s.stacks[k].pieces = current_player(s).box_hats

(* C16: when a board stack moved by apply_move ends on its controller's    *)
(* own reserve node, the reserve grows by exactly the pieces of the        *)
(* arriving stack, every piece of another colour is banked as well, the    *)
(* points rise by their number, and the stack leaves the board.            *)
BoxReturnBanks ==
    [][returns_home(state, call')
         => LET p == current_player_id(state)
                arriving == call'.stack.pieces
                captives == foreign(arriving, state.players[p].color)
            IN  /\ Len(state'.players[p].box_hats)
                       = Len(state.players[p].box_hats) + Len(arriving)
                /\ Len(state'.players[p].banked_hats)
                       = Len(state.players[p].banked_hats) + Len(captives)
                /\ points(state'.players[p])
                       = points(state.players[p]) + Len(captives)
                /\ \A k \in DOMAIN state'.stacks :
                       state'.stacks[k].pieces # arriving]_vars

(* The colours of the pieces that stand on board nodes. *)
board_colors(s) ==
    {h.color : h \in Range(Flatten([i \in DOMAIN board_stacks(s) |->
                                        board_stacks(s)[i].pieces]))}

(* C17: if after a move pieces of only one colour remain on the board, the *)
(* resulting state has phase GAME_OVER and its winner is the player of     *)
(* that colour.                                                            *)
OneColourEndsGame ==
    (/\ call.op = "apply_move"
     /\ ~call.raised
     /\ call.dest # None
     /\ Cardinality(board_colors(state)) = 1)
        => /\ state.phase = "GAME_OVER"
           /\ state.winner # <<>>
           /\ \A c \in board_colors(state) :
                  state.winner = <<player_of_color(state, c)>>

(* The highest score among the players of s. *)
max_score(s) ==
    CHOOSE m \in {score(s.players[p]) : p \in DOMAIN s.players} :
        \A p \in DOMAIN s.players : score(s.players[p]) <= m

(* C18: whenever the winner is determined, the winner is exactly the set   *)
(* of players with the maximum score, the number of pieces of their own    *)
(* colour in their reserve: one id when the maximum is unique, all tied    *)
(* ids otherwise.  (winner is the sequence of these ids.)                  *)
WinnerIsMaxScore ==
    call.op = "determine_winner"
        => /\ state.phase = "GAME_OVER"
           /\ Range(state.winner)
                  = {p \in DOMAIN state.players :
                         score(state.players[p]) = max_score(state)}
           /\ Len(state.winner) = Cardinality(Range(state.winner))

(* C18 witness: two of three players tie at a score above the third's.     *)
WinnerIsMaxScoreWitness ==
    /\ call.op = "determine_winner"
    /\ Len(state.winner) = 2
    /\ Cardinality(DOMAIN state.players) = 3
    /\ max_score(state) >= 1

(* The current player deploys from the own reserve with a roll of 1. *)
deploys_on_one(s, c) ==
    /\ c.op = "apply_move"
    /\ ~c.raised
    /\ s.dice_value = 1
    /\ HasCurrentPlayer(s)
    /\ current_player(s).box_hats # <<>>
    /\ c.stack.node_id = BoxNodeId(current_player(s).color)
    /\ c.stack \in Range(s.stacks)

(* C19: for a reserve stack and dice value 1 the only legal destination is *)
(* the entry node, the first neighbour of the player's box node, and       *)
(* apply_move places the newly deployed single-piece stack on that node.   *)
DeployOnEntry ==
    [][deploys_on_one(state, call')
          => LET player == current_player(state)
                 entry == Neighbors(BoxNodeId(player.color))[1]
             IN  /\ get_legal_destination_nodes(state, call'.stack) = {entry}
                 /\ \E k \in DOMAIN state'.stacks :
                        state'.stacks[k]
                            = Stack(entry, <<Head(player.box_hats)>>)]_vars

(* C19 witness: a roll of 1 has just deployed a piece from the reserve.    *)
DeployOnEntryWitness ==
    /\ call.op = "apply_move"
    /\ ~call.raised
    /\ StartsWithBox(call.stack.node_id)
    /\ call.stack.pieces # <<>>
    /\ state.turn_count = 1
    /\ \E k \in DOMAIN state.stacks :
           /\ state.stacks[k].node_id = "outer_0"
           /\ state.stacks[k].pieces = <<call.stack.pieces[1]>>

(* apply_move took the deployment branch or relocated a stack. *)
deploys_or_relocates(s, c) ==
    /\ c.op = "apply_move"
    /\ ~c.raised
    /\ s.dice_value # NoDice
    /\ (StartsWithBox(c.stack.node_id) \/ c.dest # None)

(* C20: every apply_move that deploys or relocates a stack and does not    *)
(* end the game returns phase ROLL with dice and selection cleared,        *)
(* turn_count one higher and the turn at the next seat, (index + 1) modulo *)
(* the player count, also after a 6 with extra_roll_on_6 enabled; with two *)
(* or more seats the player to move changes.                               *)
MoveAdvancesTurn ==
    [][(deploys_or_relocates(state, call') /\ ~call'.fired)
          => /\ state'.phase = "ROLL"
             /\ state'.dice_value = NoDice
             /\ state'.selected_stack = <<>>
             /\ state'.selected_direction = None
             /\ state'.turn_count = state.turn_count + 1
             /\ state'.current_turn_index
                    = (state.current_turn_index + 1) % Len(state.turn_order)
             /\ (Len(state.turn_order) >= 2
                    => current_player_id(state') # current_player_id(state))]_vars

(* C20 witness: in a game of two, with extra_roll_on_6 enabled, the first  *)
(* player's 6 has deployed a piece five nodes past the entry node and the  *)
(* turn is with the second player.                                         *)
MoveAdvancesTurnWitness ==
    /\ call.op = "apply_move"
    /\ ~call.raised
    /\ ~call.fired
    /\ call.stack.node_id = "box_red"
    /\ state.config.extra_roll_on_6
    /\ Len(state.turn_order) = 2
    /\ state.turn_count = 1
    /\ state.current_turn_index = 1
    /\ state.phase = "ROLL"
    /\ \E k \in DOMAIN state.stacks : state.stacks[k].node_id = "outer_5"

(* C21: get_legal_stacks(state, player) returns a reserve stack only if it *)
(* is that player's own reserve stack, it holds at least one piece and,    *)
(* when require_6_to_deploy is configured, the dice value is exactly 6.    *)
ReserveSelectable ==
    call.op = "get_legal_stacks"
        => \A k \in DOMAIN call.ret :
               StartsWithBox(call.ret[k].node_id)
                   => /\ call.player_id \in DOMAIN state.players
                      /\ call.ret[k].node_id
                             = BoxNodeId(state.players[call.player_id].color)
                      /\ Len(call.ret[k].pieces) >= 1
                      /\ (state.config.require_6_to_deploy
                              => state.dice_value = 6)

(* C21 witness: with require_6_to_deploy on and a 6 rolled the query       *)
(* returned the player's reserve stack.                                    *)
ReserveSelectableWitness ==
    /\ call.op = "get_legal_stacks"
    /\ state.config.require_6_to_deploy
    /\ state.dice_value = 6
    /\ \E k \in DOMAIN call.ret : call.ret[k].node_id = "box_green"

(* No stack controlled by the player stands on a board node. *)
all_in_reserve(s, player_id) ==
    \A k \in DOMAIN s.stacks :
        StartsWithBox(s.stacks[k].node_id)
            \/ \A i \in DOMAIN s.stacks[k].pieces :
                   s.stacks[k].pieces[i].color # s.players[player_id].color

(* C22: with the default configuration and every piece of the player in    *)
(* the reserve, get_legal_stacks is non-empty if and only if the dice      *)
(* value is 6, and then its first stack is the player's reserve stack.     *)
DeployOnlyOnSix ==
    (/\ call.op = "get_legal_stacks"
     /\ state.config.require_6_to_deploy = GameConfig.require_6_to_deploy
     /\ state.dice_value # NoDice
     /\ call.player_id \in DOMAIN state.players
     /\ all_in_reserve(state, call.player_id))
        => /\ (call.ret # <<>>) <=> (state.dice_value = 6)
           /\ state.dice_value = 6 => StartsWithBox(call.ret[1].node_id)

(* C23: every board stack returned by get_legal_stacks(state, player) is   *)
(* controlled by the player's colour and has at least one legal            *)
(* destination for the current dice value.                                 *)
BoardStackMovable ==
    call.op = "get_legal_stacks"
        => \A k \in DOMAIN call.ret :
               ~StartsWithBox(call.ret[k].node_id)
                   => /\ call.player_id \in DOMAIN state.players
                      /\ controller(call.ret[k])
                             = state.players[call.player_id].color
                      /\ get_legal_destination_nodes(state, call.ret[k]) # {}

(* C23 witness: the query returned a stack that stands inside the cross    *)
(* and holds a captive under the player's piece.                           *)
BoardStackMovableWitness ==
    /\ call.op = "get_legal_stacks"
    /\ \E k \in DOMAIN call.ret :
           /\ call.ret[k].node_id \in CrossSet
           /\ Len(call.ret[k].pieces) = 2

no_legal_roll(c) ==
    /\ tasks.conn[c].pc = "action"
    /\ tasks.conn[c].action.type = "roll"
    /\ get_legal_stacks(roll_dice(tasks.conn[c].base,
                                  tasks.conn[c].action.value), c) = <<>>

(* C26: whenever a roll leaves the current player with no legal stack, the *)
(* turn is eventually advanced to the next player, phase ROLL and dice     *)
(* cleared, without any further client action.                             *)
NoLegalRollAdvances ==
    \A c \in Connections, n \in 0..StallTurns, i \in 0..1 :
        (/\ no_legal_roll(c)
         /\ tasks.conn[c].base.turn_count = n
         /\ tasks.conn[c].base.current_turn_index = i)
            ~> (/\ state.phase = "ROLL"
                /\ state.dice_value = NoDice
                /\ state.turn_count = n + 1
                /\ state.current_turn_index = (i + 1) % Len(state.turn_order))

(* C26 witness: p1's roll found no legal stack although p1's reserve is    *)
(* not empty.                                                              *)
NoLegalRollWitness ==
    /\ no_legal_roll("p1")
    /\ tasks.conn["p1"].base.players["p1"].box_hats # <<>>

(* C27: a storage failure at get_state for a room with a game in progress  *)
(* never causes the game to be replaced by a freshly initialised one: the  *)
(* players of the stored game stay seated in whatever is stored next.      *)
OutageKeepsGame ==
    [][state # NoState
          => /\ state' # NoState
             /\ DOMAIN state.players \subseteq DOMAIN state'.players]_vars

(* C28: an action sent by a player who is not the turn owner of the stored *)
(* state never changes the room state, starts no handler, and is answered  *)
(* with a rejection notice to that client only.                            *)
NotYourTurnRejected ==
    [][/\ \A c \in Connections :
              (tasks.conn[c].pc = "idle" /\ tasks'.conn[c].pc = "action")
                  => current_player_id(state) = c
       /\ call'.op = "not_your_turn"
              => /\ state' = state
                 /\ tasks' = tasks
                 /\ call'.player_id # current_player_id(state)
                 /\ call'.ret = {call'.player_id}]_vars

(* C28 witness: p2 has been told it is not p2's turn while p1's roll is    *)
(* stored.                                                                 *)
NotYourTurnWitness ==
    /\ call.op = "not_your_turn"
    /\ call.player_id = "p2"
    /\ state # NoState
    /\ state.dice_value # NoDice
    /\ current_player_id(state) = "p1"

(* C29: in every stored state the dice value is absent when the phase is   *)
(* WAITING, ROLL or GAME_OVER and is a value of 1..6 when the phase is     *)
(* SELECT_PIECE or SELECT_DIRECTION.                                       *)
DiceMatchesPhase ==
    state # NoState
        => /\ state.phase \in {"WAITING", "ROLL", "GAME_OVER"}
                  => state.dice_value = NoDice
           /\ state.phase \in {"SELECT_PIECE", "SELECT_DIRECTION"}
                  => state.dice_value \in 1..6

(* C29 witness: a stored state is waiting for the destination of a rolled  *)
(* 6.                                                                      *)
DiceMatchesPhaseWitness ==
    /\ state # NoState
    /\ state.phase = "SELECT_DIRECTION"
    /\ state.dice_value = 6

(* The colours of the palette no player of s has, in palette order. *)
free_colours(s) ==
    SelectSeq(PlayerColor,
              LAMBDA c : \A p \in DOMAIN s.players : s.players[p].color # c)

(* C30: after any sequence of add_player calls no two players have the     *)
(* same colour, and each joining player receives the first colour of the   *)
(* palette RED, GREEN, BLUE, YELLOW not used by an existing player; the    *)
(* first player gets RED.                                                  *)
FirstFreeColour ==
    [][call'.op = "add_player"
          => /\ \A p, q \in DOMAIN state'.players :
                    p # q => state'.players[p].color # state'.players[q].color
             /\ \A p \in DOMAIN state'.players \ DOMAIN state.players :
                    /\ state'.players[p].color = free_colours(state)[1]
                    /\ DOMAIN state.players = {}
                           => state'.players[p].color = "RED"]_vars

(* C30 witness: four players have joined and hold RED, GREEN, BLUE and     *)
(* YELLOW in joining order.                                                *)
FirstFreeColourWitness ==
    /\ call.op = "add_player"
    /\ Len(state.turn_order) = 4
    /\ [i \in 1..4 |-> state.players[state.turn_order[i]].color] = PlayerColor

(* C31: a reserve node is always safe: a move by one player leaves every   *)
(* stack on another player's reserve node in state.stacks as it was, not   *)
(* captured, merged or relocated, and brings no stack to rest on another   *)
(* player's reserve node.                                                  *)
ReserveAlwaysSafe ==
    [][call'.op = "apply_move"
         => \A p \in DOMAIN state.players \ {current_player_id(state)} :
                LET box_node_id == BoxNodeId(state.players[p].color)
                IN  /\ \A k \in DOMAIN state.stacks :
                           state.stacks[k].node_id = box_node_id
                               => \E j \in DOMAIN state'.stacks :
                                      state'.stacks[j] = state.stacks[k]
                    /\ \A j \in DOMAIN state'.stacks :
                           state'.stacks[j].node_id = box_node_id
                               => \E k \in DOMAIN state.stacks :
                                      state.stacks[k] = state'.stacks[j]]_vars

(* C32: apply_move with a reserve node as target puts a board stack of the *)
(* current player on a reserve node only when that node is the reserve of  *)
(* the stack's controller and the shortest graph distance from the stack's *)
(* node to it equals the dice value; otherwise the stack is not placed on  *)
(* a reserve node.                                                         *)
ReserveTargetExact ==
    [][(/\ call'.op = "apply_move"
        /\ ~call'.raised
        /\ HasCurrentPlayer(state)
        /\ controller(call'.stack) = current_player(state).color
        /\ ~StartsWithBox(call'.stack.node_id)
        /\ call'.target # None
        /\ StartsWithBox(call'.target)
        /\ call'.dest # None
        /\ is_box(call'.dest))
         => /\ call'.dest = BoxNodeId(controller(call'.stack))
            /\ ShortestDistanceIs(call'.stack.node_id, call'.dest,
                                  state.dice_value)]_vars

(* The pieces of the stacks of s at the indices ks, as a set. *)
pieces_of(s, ks) == UNION {Range(s.stacks[k].pieces) : k \in ks}

(* C33: when apply_move brings a stack onto a node that is neither safe    *)
(* nor a reserve and holds two or more other stacks, all are absorbed:     *)
(* afterwards one stack occupies the node, it holds every piece of the     *)
(* resident stacks and of the incoming stack once, the incoming pieces on  *)
(* top, and the stacks elsewhere are as they were.                         *)
AbsorbsAllResidents ==
    [][(/\ call'.op = "apply_move"
        /\ ~call'.raised
        /\ call'.dest # None
        /\ ~is_safe_color(call'.dest)
        /\ ~is_box(call'.dest)
        /\ Cardinality(residents(state, call'.dest,
               move_stack_along_path(state, call'.stack, <<>>))) >= 2)
         => LET m == move_stack_along_path(state, call'.stack, <<>>)
                there == residents(state, call'.dest, m)
                incoming == call'.stack.pieces
            IN  /\ \E j \in DOMAIN state'.stacks :
                       LET pieces == state'.stacks[j].pieces
                       IN  /\ state'.stacks[j].node_id = call'.dest
                           /\ residents(state', call'.dest, j) = {}
                           /\ Range(pieces)
                                  = pieces_of(state, there) \cup Range(incoming)
                           /\ Len(pieces) = Cardinality(Range(pieces))
                           /\ SubSeq(pieces, Len(pieces) - Len(incoming) + 1,
                                     Len(pieces)) = incoming
                /\ \A k \in DOMAIN state.stacks \ (there \cup {m}) :
                       \E j \in DOMAIN state'.stacks :
                           state'.stacks[j] = state.stacks[k]
                /\ \A j \in DOMAIN state'.stacks :
                       state'.stacks[j].node_id # call'.dest
                           => \E k \in DOMAIN state.stacks \ (there \cup {m}) :
                                  state.stacks[k] = state'.stacks[j]]_vars

(* C34: no path of get_all_possible_paths, for the node of a stack, a step *)
(* count of 1 to 6 and any direction, contains a node twice, and the node  *)
(* of the stack is not among its legal destinations.                       *)
NoRevisit ==
    call.op = "get_legal_destination_nodes"
        => /\ \A d \in Direction \cup {None} :
                  LET paths == get_all_possible_paths(call.stack.node_id,
                                                      state.dice_value, d)
                  IN  \A k \in DOMAIN paths :
                          Cardinality(Range(paths[k])) = Len(paths[k])
           /\ call.stack.node_id \notin call.ret

(* The neighbour of a ring node on the ring in the direction. *)
ring_neighbour(node_id, direction) ==
    {x \in Range(Neighbors(node_id)) \cap OuterSet :
        OuterNum(x) = (OuterNum(node_id)
                          + (IF direction = "CW" THEN 1 ELSE RingSize - 1))
                      % RingSize}

(* The nodes a walk may take next: on a plain ring node the ring neighbour *)
(* in the direction, on a junction that neighbour or the cross arm, on a   *)
(* cross node any neighbour the walk has not visited.                      *)
next_nodes(walk, direction) ==
    LET current == Last(walk)
    IN  IF current \in OuterSet /\ is_junction(current)
        THEN ring_neighbour(current, direction)
                 \cup (Range(Neighbors(current)) \cap CrossSet)
        ELSE IF current \in OuterSet THEN ring_neighbour(current, direction)
        ELSE IF current \in CrossSet
        THEN Range(Neighbors(current)) \ Range(walk)
        ELSE {}

(* The walks of the given number of steps from the start node. *)
RECURSIVE ring_walks(_, _, _)
ring_walks(start, steps, direction) ==
    IF steps = 0 THEN {<<start>>}
    ELSE UNION {{Append(walk, x) : x \in next_nodes(walk, direction)} :
                   walk \in ring_walks(start, steps - 1, direction)}

(* C35: for a start node on the ring and a ring direction,                 *)
(* get_all_possible_paths returns exactly the walks that take the ring     *)
(* neighbour in the direction on a plain ring node and that neighbour or   *)
(* the cross arm on a junction; every path starts at the start node, has   *)
(* step count + 1 nodes, consecutive nodes adjacent, and zero steps yield  *)
(* the single path of the start node.                                      *)
RingWalksExact ==
    (/\ call.op = "get_all_possible_paths"
     /\ call.ret.start \in OuterSet
     /\ call.direction \in {"CW", "CCW"})
        => LET paths == call.ret.paths
               steps == call.ret.distance
           IN  /\ Range(paths)
                      = ring_walks(call.ret.start, steps, call.direction)
               /\ \A k \in DOMAIN paths :
                      /\ paths[k][1] = call.ret.start
                      /\ Len(paths[k]) = steps + 1
                      /\ \A i \in 1..steps :
                             paths[k][i + 1] \in Range(Neighbors(paths[k][i]))
               /\ steps = 0 => paths = <<<<call.ret.start>>>>

(* C35 witness: the enumeration from a ring node in a ring direction has   *)
(* returned a path that stays on the ring past a junction and a path that  *)
(* turns onto the cross arm there.                                         *)
RingWalksExactWitness ==
    /\ call.op = "get_all_possible_paths"
    /\ call.ret.start \in OuterSet
    /\ ~is_junction(call.ret.start)
    /\ call.direction = "CCW"
    /\ \E j, k \in DOMAIN call.ret.paths :
           /\ Last(call.ret.paths[j]) \in OuterSet
           /\ Last(call.ret.paths[k]) \in CrossSet
           /\ \E i \in 2..call.ret.distance :
                  /\ is_junction(call.ret.paths[j][i])
                  /\ call.ret.paths[k][i] = call.ret.paths[j][i]

(* The arm node next to the cross centre in a cardinal direction. *)
CardinalArm(direction) ==
    CASE direction = "NORTH" -> "cross_n_2"
      [] direction = "EAST" -> "cross_e_2"
      [] direction = "SOUTH" -> "cross_s_2"
      [] direction = "WEST" -> "cross_w_2"

(* C36: from the cross centre a cardinal direction restricts the           *)
(* enumerated paths to those leaving through the arm of that direction:    *)
(* the paths differ from those of every other cardinal direction and are   *)
(* among the paths enumerated without a direction.                         *)
CardinalFilter ==
    (/\ call.op = "get_all_possible_paths"
     /\ call.ret.start = "cross_center"
     /\ call.ret.distance >= 1
     /\ call.direction \in {"NORTH", "EAST", "SOUTH", "WEST"})
        => LET paths == call.ret.paths
           IN  /\ \A k \in DOMAIN paths :
                      paths[k][2] = CardinalArm(call.direction)
               /\ \A d \in {"NORTH", "EAST", "SOUTH", "WEST"} \ {call.direction} :
                      Range(get_all_possible_paths("cross_center",
                                call.ret.distance, d)) # Range(paths)
               /\ Range(paths) \subseteq
                      Range(get_all_possible_paths("cross_center",
                                call.ret.distance, None))

(* C37: for a deployment with a dice value of 2 or more, apply_move called *)
(* with a target taken from the legal destinations of the reserve stack    *)
(* puts the deployed piece on that target, and a deployed piece lands on a *)
(* legal destination of the reserve stack.                                 *)
DeployOnTarget ==
    [][(/\ call'.op = "apply_move"
        /\ ~call'.raised
        /\ StartsWithBox(call'.stack.node_id)
        /\ state.dice_value >= 2
        /\ Len(state'.stacks) = Len(state.stacks) + 1)
         => /\ Last(state'.stacks).node_id
                   \in get_legal_destination_nodes(state, call'.stack)
            /\ call'.target \in get_legal_destination_nodes(state, call'.stack)
                   => Last(state'.stacks).node_id = call'.target]_vars

(* C38: only the controlling player moves a stack: apply_move for a board  *)
(* stack whose controller is not the colour of the current player leaves   *)
(* the state unchanged.                                                    *)
ControllerOnly ==
    [][(/\ call'.op = "apply_move"
        /\ ~StartsWithBox(call'.stack.node_id)
        /\ HasCurrentPlayer(state)
        /\ controller(call'.stack) # current_player(state).color)
         => state' = state]_vars

(* C39: in every reachable state, for each player whose reserve node is on *)
(* the board, state.stacks holds a stack on that node and it holds exactly *)
(* the pieces of the player's reserve, in the same order.                  *)
ReserveStackMirrors ==
    \A p \in DOMAIN state.players :
        LET box_node_id == BoxNodeId(state.players[p].color)
        IN  HasNode(box_node_id)
                => /\ \E k \in DOMAIN state.stacks :
                          state.stacks[k].node_id = box_node_id
                   /\ \A k \in DOMAIN state.stacks :
                          state.stacks[k].node_id = box_node_id
                              => state.stacks[k].pieces
                                     = state.players[p].box_hats

(* C40: after every completed apply_move, deployment or relocation, each   *)
(* node of the board that is neither a reserve nor a SAFE_COLOR node holds *)
(* at most one stack.                                                      *)
OneStackPerNode ==
    (call.op = "apply_move" /\ ~call.raised)
        => \A n \in NodeIds \ BoxSet :
               ~is_safe_color(n)
                   => Cardinality({k \in DOMAIN state.stacks :
                                      state.stacks[k].node_id = n}) <= 1

=============================================================================
